---- MODULE Spec2Model ----
(***************************************************************************)
(* Secret Calculator: the calculator screen (expression buffer editor,     *)
(* evaluator, secret-code detector, history ledger) and the key-value      *)
(* storage it persists its history to.                                     *)
(*                                                                         *)
(* Strings are sequences of one-character strings, so that slicing,        *)
(* concatenation and character tests are what the code's are.              *)
(***************************************************************************)
EXTENDS Integers, Sequences, FiniteSets, TLC

(***************************************************************************)
(* Bounds of the exploration.                                              *)
(***************************************************************************)
\* Longest expression buffer explored: a key that would make it longer is
\* not pressed.  Six characters hold "Error" followed by an operator.
MaxLen == 6
\* Most keypress handlers in flight (started, not yet returned) at one time.
MaxPending == 2
\* Most keypresses in a session of Spec and of SpecLoaded.
MaxPresses == 4
\* Most keypresses in a session of SpecVault: the secret code takes six.
VaultPresses == 6
\* Most keypresses in a session of SpecVaultSeq: an evaluation and the
\* secret code take eight.
VaultSeqPresses == 8
\* Most keys, taps and direct calls in a session of SpecApp.
AppPresses == 3
\* Most keypresses in a session of SpecClock.
ClockPresses == 4
\* The last millisecond of a session of SpecClock.
MaxNow == 4
\* Most taps in a session of SpecList.
ListPresses == 3
\* Most taps and direct calls in a session of SpecNotes.
NotesPresses == 3
\* Most direct calls in a session of SpecStorageSeq.
StorageCalls == 3
\* Most keypresses in a session of SpecSeq.
SeqPresses == 5
\* Most keypresses in a session of SpecCap: eleven evaluations and one more key.
CapPresses == 12
\* Most keypresses in a session of SpecEdit.
EditPresses == 5
\* Most keypresses in a session of SpecEditSeq.
EditSeqPresses == 6
\* Largest operand of the expressions of SpecEval.
MaxOperand == 5

(***************************************************************************)
(* Characters and strings.                                                 *)
(***************************************************************************)
Str0 == <<"0">>
Empty == << >>
ErrorStr == <<"E", "r", "r", "o", "r">>

\* The exact sequence that triggers navigation to the hidden notes vault.
SECRET_CODE == <<"6", "9", "/", "6", "7">>

\* /\d/
DigitChars == {"0", "1", "2", "3", "4", "5", "6", "7", "8", "9"}
\* /[+\-*/]/
OperatorChars == {"+", "-", "*", "/"}
\* /^[\d+\-*/.\s()]+$/
AllowedChars == DigitChars \cup OperatorChars \cup {".", " ", "(", ")"}

DigitValue(c) ==
  CASE c = "0" -> 0 [] c = "1" -> 1 [] c = "2" -> 2 [] c = "3" -> 3 [] c = "4" -> 4
    [] c = "5" -> 5 [] c = "6" -> 6 [] c = "7" -> 7 [] c = "8" -> 8 [] c = "9" -> 9

DigitChar(n) ==
  CASE n = 0 -> "0" [] n = 1 -> "1" [] n = 2 -> "2" [] n = 3 -> "3" [] n = 4 -> "4"
    [] n = 5 -> "5" [] n = 6 -> "6" [] n = 7 -> "7" [] n = 8 -> "8" [] n = 9 -> "9"

\* s.slice(0, n) for 0 <= n
Take(s, n) == SubSeq(s, 1, IF n < Len(s) THEN n ELSE Len(s))
\* s.slice(0, -1)
DropLast(s) == SubSeq(s, 1, Len(s) - 1)
\* The index of the last character of s that is in set, 0 when there is none.
LastIndexIn(s, set) ==
  LET hits == {i \in 1..Len(s) : s[i] \in set}
  IN  IF hits = {} THEN 0 ELSE CHOOSE i \in hits : \A j \in hits : j <= i

(***************************************************************************)
(* Numbers.  A finite value is an exact fraction [n, d] with d > 0; every  *)
(* value the explored buffers produce has fewer than 16 significant        *)
(* digits, where the code's double arithmetic followed by its rounding to  *)
(* 9 decimals gives the exactly rounded value.  NonFinite stands for       *)
(* Infinity, -Infinity and NaN, which isFinite does not tell apart.  The   *)
(* powers of ten at the edge of the double range, which no fraction of     *)
(* machine integers holds, are evaluated by evaluatePowerOfTen.            *)
(***************************************************************************)
NonFinite == [finite |-> FALSE, n |-> 0, d |-> 1]

AbsInt(x) == IF x < 0 THEN -x ELSE x

RECURSIVE Gcd(_, _)
Gcd(a, b) == IF b = 0 THEN a ELSE Gcd(b, a % b)

Frac(n, d) ==
  LET g == Gcd(AbsInt(n), d)
  IN  [finite |-> TRUE, n |-> n \div g, d |-> d \div g]

NumNeg(a) == IF a.finite THEN Frac(-a.n, a.d) ELSE NonFinite

\* Variant of NumApply in which a division by zero gives zero.  C21 tells
\* it from IEEE arithmetic.
NumApplyZeroQuotient(op, a, b) ==
  IF ~a.finite \/ ~b.finite THEN NonFinite
  ELSE CASE op = "+" -> Frac(a.n * b.d + b.n * a.d, a.d * b.d)
         [] op = "-" -> Frac(a.n * b.d - b.n * a.d, a.d * b.d)
         [] op = "*" -> Frac(a.n * b.n, a.d * b.d)
         [] op = "/" -> IF b.n = 0 THEN Frac(0, 1)
                        ELSE IF b.n < 0 THEN Frac(-(a.n * b.d), a.d * (-b.n))
                        ELSE Frac(a.n * b.d, a.d * b.n)

\* a op b in IEEE arithmetic, as far as finiteness goes: a division by zero
\* gives an infinity or NaN, and no operation on one gives a finite value
\* (the right operand of an operator is always a literal, hence finite).
NumApply(op, a, b) ==
  IF ~a.finite \/ ~b.finite THEN NonFinite
  ELSE CASE op = "+" -> Frac(a.n * b.d + b.n * a.d, a.d * b.d)
         [] op = "-" -> Frac(a.n * b.d - b.n * a.d, a.d * b.d)
         [] op = "*" -> Frac(a.n * b.n, a.d * b.d)
         [] op = "/" -> IF b.n = 0 THEN NonFinite
                        ELSE IF b.n < 0 THEN Frac(-(a.n * b.d), a.d * (-b.n))
                        ELSE Frac(a.n * b.d, a.d * b.n)

RECURSIVE Pow(_, _)
Pow(b, e) == IF e = 0 THEN 1 ELSE b * Pow(b, e - 1)

\* The digits of s read in the given base.
RECURSIVE DigitsValue(_, _)
DigitsValue(s, base) ==
  IF s = << >> THEN 0
  ELSE DigitsValue(DropLast(s), base) * base + DigitValue(s[Len(s)])

\* The decimal digits of n >= 0.
RECURSIVE IntToString(_)
IntToString(n) ==
  IF n < 10 THEN <<DigitChar(n)>>
  ELSE Append(IntToString(n \div 10), DigitChar(n % 10))

(***************************************************************************)
(* evaluateExpression: the whitelist, the evaluation of `return <expr>` as *)
(* JavaScript, the finiteness test, the rounding and String().             *)
(***************************************************************************)
LiteralChars == DigitChars \cup {"."}
OctalChars == {"0", "1", "2", "3", "4", "5", "6", "7"}

\* A maximal run of digits and dots read as one JavaScript numeric literal
\* of sloppy-mode code: "017" is octal, "089" decimal, "5." and ".5" are
\* literals, "1.2.3", "." and "017.5" are syntax errors.
ParseLiteral(s) ==
  LET dots == {i \in 1..Len(s) : s[i] = "."}
      legacy(ip) == Len(ip) > 1 /\ ip[1] = "0" /\ \A i \in 1..Len(ip) : ip[i] \in OctalChars
      bad == [ok |-> FALSE, v |-> NonFinite]
  IN  IF Cardinality(dots) > 1 THEN bad
      ELSE IF dots = {} THEN
        [ok |-> TRUE, v |-> Frac(DigitsValue(s, IF legacy(s) THEN 8 ELSE 10), 1)]
      ELSE
        LET p == CHOOSE i \in dots : TRUE
            ip == SubSeq(s, 1, p - 1)
            fp == SubSeq(s, p + 1, Len(s))
            scale == Pow(10, Len(fp))
        IN  IF (ip = << >> /\ fp = << >>) \/ legacy(ip) THEN bad
            ELSE [ok |-> TRUE,
                  v |-> Frac(DigitsValue(ip, 10) * scale + DigitsValue(fp, 10), scale)]

\* The length of the run of literal characters s starts with.
RECURSIVE LiteralRun(_)
LiteralRun(s) ==
  IF s = << >> \/ s[1] \notin LiteralChars THEN 0 ELSE 1 + LiteralRun(Tail(s))

\* The tokens of s: operators and maximal literal runs; any other
\* character (the keys produce none) ends the scan with a "bad" token.
RECURSIVE Tokens(_)
Tokens(s) ==
  IF s = << >> THEN << >>
  ELSE IF s[1] \in OperatorChars THEN <<[kind |-> "op", op |-> s[1]]>> \o Tokens(Tail(s))
  ELSE IF s[1] \in LiteralChars THEN
    LET n == LiteralRun(s)
    IN  <<[kind |-> "lit", text |-> SubSeq(s, 1, n)]>> \o Tokens(SubSeq(s, n + 1, Len(s)))
  ELSE <<[kind |-> "bad"]>>

\* One operand starting at token i: unary signs, then a literal.  "++" and
\* "--" are the increment and decrement tokens, a syntax error here.
RECURSIVE ParseOperand(_, _, _)
ParseOperand(t, i, negate) ==
  IF i > Len(t) THEN [ok |-> FALSE, v |-> NonFinite, next |-> i]
  ELSE IF t[i].kind = "lit" THEN
    LET lit == ParseLiteral(t[i].text)
    IN  [ok |-> lit.ok, v |-> IF negate THEN NumNeg(lit.v) ELSE lit.v, next |-> i + 1]
  ELSE IF t[i].kind = "op" /\ t[i].op \in {"+", "-"}
          /\ ~(i > 1 /\ t[i - 1].kind = "op" /\ t[i - 1].op = t[i].op) THEN
    ParseOperand(t, i + 1, IF t[i].op = "-" THEN ~negate ELSE negate)
  ELSE [ok |-> FALSE, v |-> NonFinite, next |-> i]

\* operand (operator operand)*, as the operand values and the operators between them.
RECURSIVE ParseOperands(_, _)
ParseOperands(t, i) ==
  LET first == ParseOperand(t, i, FALSE)
  IN  IF ~first.ok THEN [ok |-> FALSE, vals |-> << >>, ops |-> << >>]
      ELSE IF first.next > Len(t) THEN [ok |-> TRUE, vals |-> <<first.v>>, ops |-> << >>]
      ELSE IF t[first.next].kind # "op" THEN [ok |-> FALSE, vals |-> << >>, ops |-> << >>]
      ELSE LET rest == ParseOperands(t, first.next + 1)
           IN  [ok |-> rest.ok,
                vals |-> <<first.v>> \o rest.vals,
                ops |-> <<t[first.next].op>> \o rest.ops]

\* A run of * and / applied left to right.
RECURSIVE Product(_, _)
Product(vals, ops) ==
  IF ops = << >> THEN vals[1]
  ELSE NumApply(ops[Len(ops)], Product(DropLast(vals), DropLast(ops)), vals[Len(vals)])

\* Variant of Sum that applies every operator left to right, whatever its
\* level.  C19 tells it from the evaluation.
SumLeftToRight(vals, ops) == Product(vals, ops)

\* * and / bind tighter than + and -, each level left to right.
RECURSIVE Sum(_, _)
Sum(vals, ops) ==
  LET k == LastIndexIn(ops, {"+", "-"})
  IN  IF k = 0 THEN Product(vals, ops)
      ELSE NumApply(ops[k],
                    Sum(SubSeq(vals, 1, k), SubSeq(ops, 1, k - 1)),
                    Product(SubSeq(vals, k + 1, Len(vals)), SubSeq(ops, k + 1, Len(ops))))

\* new Function(`return ${cleanExpr}`)() for an expression of digits, dots
\* and operators: threw on a syntax error, else the value.  A buffer never
\* holds two operators in a row (the editor replaces the trailing one), so
\* "**", "//" and "/*", which JavaScript reads as exponentiation and
\* comments, are outside what is evaluated and are reported as threw here,
\* as are the spaces and parentheses the whitelist lets through.
JsEval(s) ==
  LET t == Tokens(s)
      parsed == ParseOperands(t, 1)
  IN  IF \E i \in 1..Len(t) : t[i].kind = "bad" THEN [threw |-> TRUE, v |-> NonFinite]
      ELSE IF ~parsed.ok THEN [threw |-> TRUE, v |-> NonFinite]
      ELSE [threw |-> FALSE, v |-> Sum(parsed.vals, parsed.ops)]

\* The first k decimals of r/d (0 <= r < d) as an integer, and what is left over.
RECURSIVE Decimals(_, _, _)
Decimals(r, d, k) ==
  IF k = 0 THEN [digits |-> 0, rem |-> r]
  ELSE LET prev == Decimals(r, d, k - 1)
       IN  [digits |-> prev.digits * 10 + (prev.rem * 10) \div d,
            rem |-> (prev.rem * 10) % d]

\* Number of decimals kept by the rounding (1000000000 = 10^9).
ROUND_DECIMALS == 9

\* Math.round(result * 1000000000) / 1000000000 as [neg, int, frac]: the
\* value is (-1)^neg * (int + frac / 10^9).  Math.round rounds a half
\* towards +Infinity.
Round9(v) ==
  LET neg == v.n < 0
      a == AbsInt(v.n)
      dec == Decimals(a % v.d, v.d, ROUND_DECIMALS)
      up == IF neg THEN 2 * dec.rem > v.d ELSE 2 * dec.rem >= v.d
      f == dec.digits + (IF up THEN 1 ELSE 0)
      carry == f = Pow(10, ROUND_DECIMALS)
  IN  [neg |-> neg,
       int |-> (a \div v.d) + (IF carry THEN 1 ELSE 0),
       frac |-> IF carry THEN 0 ELSE f]

RECURSIVE StripZeros(_)
StripZeros(s) == IF s # << >> /\ s[Len(s)] = "0" THEN StripZeros(DropLast(s)) ELSE s

RECURSIVE PadLeft(_, _)
PadLeft(s, n) == IF Len(s) >= n THEN s ELSE PadLeft(<<"0">> \o s, n)

\* String(rounded): no trailing zeros, no sign on zero, and the exponent
\* form below 10^-6 ("1.5e-7").  Values from 10^21 on, which String() also
\* writes with an exponent, are beyond the explored buffers.
NumberToString(r) ==
  LET sign == IF r.neg /\ (r.int # 0 \/ r.frac # 0) THEN <<"-">> ELSE << >>
      fdigits == StripZeros(PadLeft(IntToString(r.frac), ROUND_DECIMALS))
      sig == StripZeros(IntToString(r.frac))
  IN  IF r.frac = 0 THEN sign \o IntToString(r.int)
      ELSE IF r.int = 0 /\ r.frac < 1000 THEN
        sign \o <<sig[1]>> \o (IF Len(sig) > 1 THEN <<".">> \o Tail(sig) ELSE << >>)
             \o <<"e", "-">> \o IntToString(ROUND_DECIMALS + 1 - Len(IntToString(r.frac)))
      ELSE sign \o IntToString(r.int) \o <<".">> \o fdigits

\* Variant of NormalizeOperators that also drops an operator left at the
\* end of the expression.  C28 tells it from the replacement.
NormalizeDropsTrailingOperator(expr) ==
  LET kept == IF expr # << >> /\ expr[Len(expr)] \in OperatorChars
                THEN DropLast(expr) ELSE expr
  IN  [i \in 1..Len(kept) |->
         IF kept[i] = "×" THEN "*" ELSE IF kept[i] = "÷" THEN "/" ELSE kept[i]]

\* expr.replace(/×/g, "*").replace(/÷/g, "/")
NormalizeOperators(expr) ==
  [i \in 1..Len(expr) |->
     IF expr[i] = "×" THEN "*" ELSE IF expr[i] = "÷" THEN "/" ELSE expr[i]]

\* The largest n for which the double nearest to 10^n is finite (the largest
\* double is about 1.8 * 10^308).
DOUBLE_MAX_EXP10 == 308

InfinityStr == <<"I", "n", "f", "i", "n", "i", "t", "y">>

\* s is the decimal literal of a power of ten: "1" followed by zeros.
IsPowerOfTen(s) == s # << >> /\ s[1] = "1" /\ \A i \in 2..Len(s) : s[i] = "0"

\* The literal 10^n is so large that result * 1000000000 is beyond the
\* largest double.
RoundingOverflows(n) == n + ROUND_DECIMALS > DOUBLE_MAX_EXP10

\* The evaluation of the literal 10^n where RoundingOverflows(n).  Beyond
\* the largest double the literal itself is Infinity and isFinite rejects
\* it.  Up to it the value passes isFinite, result * 1000000000 is
\* Infinity, Math.round(Infinity) / 1000000000 is Infinity and String()
\* gives "Infinity".
evaluatePowerOfTen(n) ==
  IF n > DOUBLE_MAX_EXP10 THEN ErrorStr ELSE InfinityStr

evaluateExpression(expr) ==
  LET cleanExpr == NormalizeOperators(expr)
      run == JsEval(cleanExpr)
  IN  IF cleanExpr = << >> \/ \E i \in 1..Len(cleanExpr) : cleanExpr[i] \notin AllowedChars
        THEN ErrorStr
      ELSE IF RoundingOverflows(Len(cleanExpr) - 1) /\ IsPowerOfTen(cleanExpr)
        THEN evaluatePowerOfTen(Len(cleanExpr) - 1)
      ELSE IF run.threw THEN ErrorStr
      ELSE IF ~run.v.finite THEN ErrorStr
      ELSE NumberToString(Round9(run.v))

(***************************************************************************)
(* The calculator screen's state, the storage, and the handlers in flight. *)
(***************************************************************************)
VARIABLES
  nav,             \* the route on top of the stack: "Calculator" or "Notes"
  expression,      \* useState: current expression being built
  result,          \* useState: the computed result after pressing equals
  history,         \* useState: calculation history, newest first
  justCalculated,  \* useState: whether the last action was a calculation
  storage,         \* AsyncStorage: key -> JSON text, or NullItem for an absent key
  load,            \* the loadHistory() call started at mount: [pc, value]
  handlers,        \* the handleButtonPress calls in flight, in press order
  now,             \* Date.now()
  presses,         \* number of keys pressed, taps and direct calls made so far
  seq,             \* the reference: the keys pressed so far, handled one at a time
  calls,           \* the calls of the functions of lib/storage.ts in flight
  returned,        \* the call that completed last, with what it returned, and
                   \* the number n of calls completed so far
  notes,           \* NotesScreen useState: the notes listed
  edit,            \* EditNoteScreen: its route parameter and its useState
  alert            \* the Alert shown last

\* The notes side of the application.
notesVars == <<calls, returned, notes, edit, alert>>

vars == <<nav, expression, result, history, justCalculated, storage, load,
          handlers, now, presses, seq, calls, returned, notes, edit, alert>>

\* STORAGE_KEYS
HISTORY_KEY == "@calculator_history"
NOTES_KEY == "@calculator_notes"

\* What AsyncStorage.getItem gives for an absent key.
NullItem == [null |-> TRUE]

\* No call has completed; no EditNoteScreen is mounted.
NoReturn == [op |-> "none", n |-> 0]
NoEdit == [mounted |-> FALSE]

\* The notes side before the notes screen is opened.
NotesIdle ==
  /\ calls = << >>
  /\ returned = NoReturn
  /\ notes = << >>
  /\ edit = NoEdit
  /\ alert = "none"

\* JSON.stringify of a collection of records of strings and integers, and
\* JSON.parse of such a text: the text is kept as the collection it denotes.
JsonStringify(value) == [json |-> value]
JsonParse(text) == text.json

\* A stored text that JSON.parse rejects, left by a fault of the device,
\* and the outcome of an AsyncStorage.getItem that rejects.
CorruptItem == [corrupt |-> TRUE]
Rejected == [rejected |-> TRUE]

\* loadHistory: the value it resolves to for the item it reads.  The catch
\* turns a rejected read and a text that does not parse into the empty
\* collection.
loadHistory(item) ==
  IF item \in {Rejected, NullItem, CorruptItem} THEN << >> ELSE JsonParse(item)

\* Maximum number of history entries kept: .slice(0, 10)
HISTORY_LIMIT == 10

\* Variant of checkSecretCode that accepts every buffer the code starts
\* with.  C2 tells it from the comparison.
checkSecretCodePrefix(expr) ==
  Len(expr) <= Len(SECRET_CODE) /\ Take(SECRET_CODE, Len(expr)) = expr

\* checkSecretCode
checkSecretCode(expr) == expr = SECRET_CODE

\* The "C" branch of handleButtonPress, up to its await.
ClearedState == [expression |-> Str0, result |-> Empty, justCalculated |-> FALSE,
                 history |-> << >>]

\* The updater of the "DEL" branch.
deleteUpdater(prev) == IF Len(prev) <= 1 THEN Str0 ELSE DropLast(prev)

\* Variant of inputUpdater without the fresh start after a calculation: the
\* digit goes through the other rules.  C17 tells it from the updater.
inputUpdaterAppendsDigit(prev, justCalc, res, value) ==
  IF justCalc /\ value \in OperatorChars THEN res \o <<value>>
  ELSE IF prev = Str0 /\ value \in DigitChars THEN <<value>>
  ELSE IF prev # << >> /\ prev[Len(prev)] \in OperatorChars /\ value \in OperatorChars
    THEN DropLast(prev) \o <<value>>
  ELSE IF value = "."
          /\ \E i \in (LastIndexIn(prev, OperatorChars) + 1)..Len(prev) : prev[i] = "."
    THEN prev
  ELSE prev \o <<value>>

\* Variant of inputUpdater that chains the operator onto the buffer instead
\* of the result.  C18 tells it from the updater.
inputUpdaterChainsBuffer(prev, justCalc, res, value) ==
  IF justCalc /\ value \in DigitChars THEN <<value>>
  ELSE IF justCalc /\ value \in OperatorChars THEN prev \o <<value>>
  ELSE IF prev = Str0 /\ value \in DigitChars THEN <<value>>
  ELSE IF prev # << >> /\ prev[Len(prev)] \in OperatorChars /\ value \in OperatorChars
    THEN DropLast(prev) \o <<value>>
  ELSE IF value = "."
          /\ \E i \in (LastIndexIn(prev, OperatorChars) + 1)..Len(prev) : prev[i] = "."
    THEN prev
  ELSE prev \o <<value>>

\* Variant of inputUpdater without the replacement of the initial zero.
\* C15 tells it from the updater.
inputUpdaterKeepsZero(prev, justCalc, res, value) ==
  IF justCalc /\ value \in DigitChars THEN <<value>>
  ELSE IF justCalc /\ value \in OperatorChars THEN res \o <<value>>
  ELSE IF prev # << >> /\ prev[Len(prev)] \in OperatorChars /\ value \in OperatorChars
    THEN DropLast(prev) \o <<value>>
  ELSE IF value = "."
          /\ \E i \in (LastIndexIn(prev, OperatorChars) + 1)..Len(prev) : prev[i] = "."
    THEN prev
  ELSE prev \o <<value>>

\* Variant of inputUpdater without the replacement of a trailing operator.
\* C13 tells it from the updater.
inputUpdaterNoCollapse(prev, justCalc, res, value) ==
  IF justCalc /\ value \in DigitChars THEN <<value>>
  ELSE IF justCalc /\ value \in OperatorChars THEN res \o <<value>>
  ELSE IF prev = Str0 /\ value \in DigitChars THEN <<value>>
  ELSE IF value = "."
          /\ \E i \in (LastIndexIn(prev, OperatorChars) + 1)..Len(prev) : prev[i] = "."
    THEN prev
  ELSE prev \o <<value>>

\* Variant of inputUpdater without the decimal guard.  C14 tells it from
\* the updater.
inputUpdaterNoDecimalGuard(prev, justCalc, res, value) ==
  IF justCalc /\ value \in DigitChars THEN <<value>>
  ELSE IF justCalc /\ value \in OperatorChars THEN res \o <<value>>
  ELSE IF prev = Str0 /\ value \in DigitChars THEN <<value>>
  ELSE IF prev # << >> /\ prev[Len(prev)] \in OperatorChars /\ value \in OperatorChars
    THEN DropLast(prev) \o <<value>>
  ELSE prev \o <<value>>

\* The updater of the digit and operator branch: prev is the state's
\* expression when the updater runs; justCalc and res are the values the
\* handler closed over.
inputUpdater(prev, justCalc, res, value) ==
  IF justCalc /\ value \in DigitChars THEN <<value>>
  ELSE IF justCalc /\ value \in OperatorChars THEN res \o <<value>>
  ELSE IF prev = Str0 /\ value \in DigitChars THEN <<value>>
  ELSE IF prev # << >> /\ prev[Len(prev)] \in OperatorChars /\ value \in OperatorChars
    THEN DropLast(prev) \o <<value>>
  ELSE IF value = "."
          /\ \E i \in (LastIndexIn(prev, OperatorChars) + 1)..Len(prev) : prev[i] = "."
    THEN prev
  ELSE prev \o <<value>>

\* newHistoryItem
newHistoryItem(expr, calcResult, time) ==
  [id |-> IntToString(time), expression |-> expr, result |-> calcResult, timestamp |-> time]

\* Variant of updatedHistory without the slice.  C4 tells it from the
\* handler's.
updatedHistoryUncapped(item, hist) == <<item>> \o hist

\* [newHistoryItem, ...history].slice(0, 10)
updatedHistory(item, hist) == Take(<<item>> \o hist, HISTORY_LIMIT)

RemoveAt(s, i) == SubSeq(s, 1, i - 1) \o SubSeq(s, i + 1, Len(s))

(***************************************************************************)
(* The reference: what the keys pressed so far give when each press is     *)
(* handled to its end before the next key is pressed (the rules of the     *)
(* buffer editor, the detector, the evaluator and the ledger, one press at *)
(* a time).  log holds every successful evaluation since the last clear,   *)
(* newest first and never cut; entries are kept without id and timestamp.  *)
(* key is the last key pressed, before the buffer and the flag it found.   *)
(***************************************************************************)
SeqEntry(expr, calcResult) == [expression |-> expr, result |-> calcResult]

\* The "=" rule once the expression is evaluated.
SeqEquals(st, calcResult) ==
  [st EXCEPT !.result = calcResult, !.justCalculated = TRUE, !.key = "=",
             !.log = IF calcResult # ErrorStr
                       THEN <<SeqEntry(st.expression, calcResult)>> \o @
                       ELSE @]

\* The rules of the keys.
SeqRule(st, value) ==
  IF value = "C" THEN
    [st EXCEPT !.expression = Str0, !.result = Empty, !.justCalculated = FALSE,
               !.log = << >>, !.key = value]
  ELSE IF value = "DEL" THEN
    [st EXCEPT !.expression = deleteUpdater(st.expression), !.justCalculated = FALSE,
               !.key = value]
  ELSE IF value = "=" THEN
    IF checkSecretCode(st.expression)
      THEN [st EXCEPT !.expression = Str0, !.result = Empty, !.key = value]
      ELSE SeqEquals(st, evaluateExpression(st.expression))
  ELSE [st EXCEPT !.expression = inputUpdater(@, st.justCalculated, st.result, value),
                  !.justCalculated = FALSE, !.key = value]

\* A key is handled: before keeps the buffer and the flag the key found.
SeqStep(st, value) ==
  [SeqRule(st, value) EXCEPT
     !.before = [expression |-> st.expression, justCalculated |-> st.justCalculated]]

\* A history without its ids and timestamps.
Entries(hist) == [i \in 1..Len(hist) |-> SeqEntry(hist[i].expression, hist[i].result)]

(***************************************************************************)
(* Initial state: the screen just mounted, its loadHistory() call started. *)
(* The storage holds what an earlier session left: nothing (first launch), *)
(* or the history of one evaluation made at time 0.                        *)
(***************************************************************************)
EarlierHistory == <<newHistoryItem(<<"7">>, <<"7">>, 0)>>

InitialStorage ==
  {[k \in {HISTORY_KEY, NOTES_KEY} |-> NullItem],
   [k \in {HISTORY_KEY, NOTES_KEY} |->
      IF k = HISTORY_KEY THEN JsonStringify(EarlierHistory) ELSE NullItem]}

Init ==
  /\ nav = "Calculator"
  /\ expression = Str0
  /\ result = Empty
  /\ history = << >>
  /\ justCalculated = FALSE
  /\ storage \in InitialStorage
  /\ load = [pc |-> "getItem", value |-> << >>]
  /\ handlers = << >>
  /\ now = 1
  /\ presses = 0
  /\ seq = [expression |-> Str0, result |-> Empty, justCalculated |-> FALSE,
            log |-> Entries(loadHistory(storage[HISTORY_KEY])), key |-> "none",
            before |-> [expression |-> Str0, justCalculated |-> FALSE]]
  /\ NotesIdle

(***************************************************************************)
(* handleButtonPress.  The handler is async: it closes over the state of   *)
(* the render it was created in, awaits the haptic feedback, runs to its   *)
(* next await (saveHistory) or to its return, and after saveHistory sets   *)
(* the result.  Each await is a point where other handlers and the load    *)
(* may run.                                                                *)
(***************************************************************************)
\* BUTTON_LAYOUT: the values of the buttons.
BUTTON_LAYOUT ==
  {"C", "DEL", "/", "*", "7", "8", "9", "-", "4", "5", "6", "+", "1", "2", "3", "=", "0", "."}

InputKeys == BUTTON_LAYOUT \ {"C", "DEL", "="}

\* The buffer a digit, dot or operator key would leave stays within MaxLen,
\* in the state and in the one-at-a-time reference.
WithinMaxLen(value) ==
  value \in InputKeys =>
    /\ Len(inputUpdater(expression, justCalculated, result, value)) <= MaxLen
    /\ Len(inputUpdater(seq.expression, seq.justCalculated, seq.result, value)) <= MaxLen

\* The state a handler created in the current render closes over.  Of the
\* dependencies of the useCallback, the "=" branch reads expression and
\* history, the digit and operator branch reads justCalculated and result,
\* and "C" and "DEL" read none: what a branch does not read is left blank.
Closure(value) ==
  [expression |-> IF value = "=" THEN expression ELSE Empty,
   history |-> IF value = "=" THEN history ELSE << >>,
   result |-> IF value \in InputKeys THEN result ELSE Empty,
   justCalculated |-> IF value \in InputKeys THEN justCalculated ELSE FALSE]

\* onPress: the call of handleButtonPress(value), up to its first await.
handleButtonPress(value) ==
  /\ nav = "Calculator"
  /\ WithinMaxLen(value)
  /\ handlers' = Append(handlers,
       [key |-> value, pc |-> "haptics", closure |-> Closure(value),
        saving |-> << >>, calcResult |-> Empty])
  /\ UNCHANGED <<nav, expression, result, history, justCalculated, storage, load, now>>
  /\ UNCHANGED notesVars

\* await saveHistory(...) entered: the handler waits for the write.
AwaitSave(i, hist) ==
  handlers' = [handlers EXCEPT ![i].pc = "saveHistory", ![i].saving = hist]

\* Variant of ClearPressed that resets the calculator but leaves the
\* history, in memory and in the storage.  C5 tells it from the handler.
ClearPressedKeepsHistory(i) ==
  /\ expression' = ClearedState.expression
  /\ result' = ClearedState.result
  /\ justCalculated' = ClearedState.justCalculated
  /\ handlers' = RemoveAt(handlers, i)
  /\ UNCHANGED <<nav, history>>

\* Clear: reset calculator and wipe history.
ClearPressed(i) ==
  /\ expression' = ClearedState.expression
  /\ result' = ClearedState.result
  /\ justCalculated' = ClearedState.justCalculated
  /\ history' = ClearedState.history
  /\ AwaitSave(i, << >>)
  /\ UNCHANGED nav

\* Variant of DeletePressed that leaves the just-calculated flag.  C16 tells
\* it from the handler.
DeletePressedKeepsFlag(i) ==
  /\ expression' = deleteUpdater(expression)
  /\ handlers' = RemoveAt(handlers, i)
  /\ UNCHANGED <<nav, result, history, justCalculated>>

\* Delete: remove the last character from expression.
DeletePressed(i) ==
  /\ expression' = deleteUpdater(expression)
  /\ justCalculated' = FALSE
  /\ handlers' = RemoveAt(handlers, i)
  /\ UNCHANGED <<nav, result, history>>

\* Variant of EqualsEvaluated without the test of "Error": every evaluation
\* is added to the history.  C3 tells it from the handler.
EqualsEvaluatedRecordsErrors(i, calcResult) ==
  /\ history' = updatedHistory(newHistoryItem(handlers[i].closure.expression, calcResult, now),
                               handlers[i].closure.history)
  /\ handlers' = [handlers EXCEPT ![i].pc = "saveHistory", ![i].saving = history',
                                  ![i].calcResult = calcResult]
  /\ UNCHANGED <<nav, expression, result, justCalculated>>

\* Variant of EqualsEvaluated that also resets the buffer when the
\* evaluation fails.  C6 tells it from the handler.
EqualsEvaluatedResetsOnError(i, calcResult) ==
  IF calcResult # ErrorStr THEN
    /\ history' = updatedHistory(newHistoryItem(handlers[i].closure.expression, calcResult, now),
                                 handlers[i].closure.history)
    /\ handlers' = [handlers EXCEPT ![i].pc = "saveHistory", ![i].saving = history',
                                    ![i].calcResult = calcResult]
    /\ UNCHANGED <<nav, expression, result, justCalculated>>
  ELSE
    /\ result' = calcResult
    /\ expression' = Str0
    /\ justCalculated' = TRUE
    /\ handlers' = RemoveAt(handlers, i)
    /\ UNCHANGED <<nav, history>>

\* The "=" branch once the expression is evaluated: a successful
\* calculation is added to the history and saved, an error only shown.
EqualsEvaluated(i, calcResult) ==
  IF calcResult # ErrorStr THEN
    /\ history' = updatedHistory(newHistoryItem(handlers[i].closure.expression, calcResult, now),
                                 handlers[i].closure.history)
    /\ handlers' = [handlers EXCEPT ![i].pc = "saveHistory", ![i].saving = history',
                                    ![i].calcResult = calcResult]
    /\ UNCHANGED <<nav, expression, result, justCalculated>>
  ELSE
    /\ result' = calcResult
    /\ justCalculated' = TRUE
    /\ handlers' = RemoveAt(handlers, i)
    /\ UNCHANGED <<nav, expression, history>>

\* Variant of EqualsPressed without the return after the navigation: the
\* secret code is evaluated and recorded as well.  C1 tells it from the
\* handler.
EqualsPressedNoReturn(i) ==
  IF checkSecretCode(handlers[i].closure.expression) THEN
    /\ expression' = Str0
    /\ result' = Empty
    /\ nav' = "Notes"
    /\ history' = updatedHistory(
         newHistoryItem(handlers[i].closure.expression,
                        evaluateExpression(handlers[i].closure.expression), now),
         handlers[i].closure.history)
    /\ handlers' = [handlers EXCEPT ![i].pc = "saveHistory", ![i].saving = history',
                                    ![i].calcResult = history'[1].result]
    /\ UNCHANGED justCalculated
  ELSE EqualsEvaluated(i, evaluateExpression(handlers[i].closure.expression))

\* Equals: either trigger secret navigation or compute result.
EqualsPressed(i) ==
  IF checkSecretCode(handlers[i].closure.expression) THEN
    /\ expression' = Str0
    /\ result' = Empty
    /\ nav' = "Notes"
    /\ handlers' = RemoveAt(handlers, i)
    /\ UNCHANGED <<history, justCalculated>>
  ELSE EqualsEvaluated(i, evaluateExpression(handlers[i].closure.expression))

\* Variant of InputPressed that leaves the just-calculated flag as it is.
\* C30 tells it from the handler.
InputPressedKeepsFlag(i) ==
  LET h == handlers[i]
      next == inputUpdater(expression, h.closure.justCalculated, h.closure.result, h.key)
  IN  /\ Len(next) <= MaxLen
      /\ expression' = next
      /\ handlers' = RemoveAt(handlers, i)
      /\ UNCHANGED <<nav, result, history, justCalculated>>

\* Handle digit and operator input.
InputPressed(i) ==
  LET h == handlers[i]
      next == inputUpdater(expression, h.closure.justCalculated, h.closure.result, h.key)
  IN  /\ Len(next) <= MaxLen
      /\ expression' = next
      /\ justCalculated' = FALSE
      /\ handlers' = RemoveAt(handlers, i)
      /\ UNCHANGED <<nav, result, history>>

\* The haptic feedback of handler i resolves: the handler runs to its next
\* await or to its return.
AfterHaptics(i) ==
  /\ handlers[i].pc = "haptics"
  /\ CASE handlers[i].key = "C" -> ClearPressed(i)
       [] handlers[i].key = "DEL" -> DeletePressed(i)
       [] handlers[i].key = "=" -> EqualsPressed(i)
       [] OTHER -> InputPressed(i)
  /\ UNCHANGED <<storage, load, now, presses, seq>>
  /\ UNCHANGED notesVars

\* saveHistory: the write of handler i lands and the handler runs to its end.
AfterSaveHistory(i) ==
  LET h == handlers[i]
  IN  /\ h.pc = "saveHistory"
      /\ storage' = [storage EXCEPT ![HISTORY_KEY] = JsonStringify(h.saving)]
      /\ IF h.key = "="
           THEN result' = h.calcResult /\ justCalculated' = TRUE
           ELSE UNCHANGED <<result, justCalculated>>
      /\ handlers' = RemoveAt(handlers, i)
      /\ UNCHANGED <<nav, expression, history, load, now, presses, seq>>
      /\ UNCHANGED notesVars

(***************************************************************************)
(* loadHistory() at mount, then setHistory.                                *)
(***************************************************************************)
\* AsyncStorage.getItem resolves.
LoadGetItem ==
  /\ load.pc = "getItem"
  /\ load' = [pc |-> "then", value |-> loadHistory(storage[HISTORY_KEY])]
  /\ UNCHANGED <<nav, expression, result, history, justCalculated, storage, handlers,
                 now, presses, seq>>
  /\ UNCHANGED notesVars

\* .then((savedHistory) => { if (savedHistory) setHistory(savedHistory) }):
\* an array, empty or not, is truthy.
LoadThen ==
  /\ load.pc = "then"
  /\ history' = load.value
  /\ load' = [pc |-> "done", value |-> << >>]
  /\ UNCHANGED <<nav, expression, result, justCalculated, storage, handlers,
                 now, presses, seq>>
  /\ UNCHANGED notesVars

\* handleReturnToCalculator: the grid icon of the notes screen.
handleReturnToCalculator ==
  /\ nav = "Notes"
  /\ nav' = "Calculator"
  /\ UNCHANGED <<expression, result, history, justCalculated, storage, load, handlers,
                 now, presses, seq>>
  /\ UNCHANGED notesVars

\* What runs between keypresses on the calculator screen: the
\* continuations of the handlers in flight, and the load.
Continue ==
  \/ \E i \in 1..Len(handlers) : AfterHaptics(i)
  \/ \E i \in 1..Len(handlers) : AfterSaveHistory(i)
  \/ LoadGetItem
  \/ LoadThen

\* A key of the set keys is pressed: at most maxPresses in a session, only
\* while fewer than maxPending handlers are in flight and, with loadFirst,
\* only once the load started at mount has resolved.  With track the
\* reference follows the keys.
PressKey(keys, maxPresses, maxPending, loadFirst, track) ==
  /\ presses < maxPresses
  /\ Len(handlers) < maxPending
  /\ loadFirst => load.pc = "done"
  /\ \E value \in keys :
       /\ handleButtonPress(value)
       /\ seq' = IF track THEN SeqStep(seq, value) ELSE seq
  /\ presses' = presses + 1

\* Keys pressed at any time: while the load is pending and while earlier
\* handlers are in flight.
Keys == {"6", "7", "/", "=", "C", "DEL"}

Next ==
  \/ PressKey(Keys, MaxPresses, MaxPending, FALSE, TRUE)
  \/ Continue

Spec == Init /\ [][Next]_vars

\* Keys pressed once the load has resolved, while earlier handlers may be in flight.
NextLoaded ==
  \/ PressKey(Keys, MaxPresses, MaxPending, TRUE, TRUE)
  \/ Continue

SpecLoaded == Init /\ [][NextLoaded]_vars

\* The keys of the secret code, pressed once the load has resolved, while
\* earlier handlers may be in flight; the notes screen is reached and left.
VaultKeys == {"6", "7", "9", "/", "="}

NextVault ==
  \/ PressKey(VaultKeys, VaultPresses, MaxPending, TRUE, FALSE)
  \/ Continue
  \/ handleReturnToCalculator

SpecVault == Init /\ [][NextVault]_vars

\* The keys of the secret code pressed one at a time, long enough for an
\* evaluation followed by the secret code.
NextVaultSeq ==
  \/ PressKey(VaultKeys, VaultSeqPresses, 1, TRUE, TRUE)
  \/ Continue
  \/ handleReturnToCalculator

SpecVaultSeq == Init /\ [][NextVaultSeq]_vars

\* Keypresses processed one at a time: a key is pressed only when the load
\* has resolved and no handler is in flight.
SeqKeys == {"6", "7", "/", ".", "=", "C", "DEL"}

NextSeq ==
  \/ PressKey(SeqKeys, SeqPresses, 1, TRUE, TRUE)
  \/ Continue

SpecSeq == Init /\ [][NextSeq]_vars

\* One at a time, and enough evaluations to fill the ledger.
CapKeys == {"7", "=", "C"}

NextCap ==
  \/ PressKey(CapKeys, CapPresses, 1, TRUE, TRUE)
  \/ Continue

SpecCap == Init /\ [][NextCap]_vars

\* The keys of the buffer editor: two digits, two operators, the dot, "="
\* and "DEL", pressed once the load has resolved, while earlier handlers
\* may be in flight.
EditKeys == {"0", "5", "-", "*", ".", "=", "DEL"}

NextEdit ==
  \/ PressKey(EditKeys, EditPresses, MaxPending, TRUE, TRUE)
  \/ Continue

SpecEdit == Init /\ [][NextEdit]_vars

\* The keys of the buffer editor, one at a time.
NextEditSeq ==
  \/ PressKey(EditKeys, EditSeqPresses, 1, TRUE, TRUE)
  \/ Continue

SpecEditSeq == Init /\ [][NextEditSeq]_vars

\* The clock read by Date.now() passes to the next millisecond, at any
\* moment: between two keypresses, and between the steps of the handlers.
Tick ==
  /\ now < MaxNow
  /\ now' = now + 1
  /\ UNCHANGED <<nav, expression, result, history, justCalculated, storage, load,
                 handlers, presses, seq>>
  /\ UNCHANGED notesVars

\* A digit and "=" pressed while the clock runs: the load has resolved,
\* earlier handlers may be in flight, and any number of steps fall within
\* one millisecond.
ClockKeys == {"7", "="}

NextClock ==
  \/ PressKey(ClockKeys, ClockPresses, MaxPending, TRUE, FALSE)
  \/ Continue
  \/ Tick

SpecClock == Init /\ [][NextClock]_vars

(***************************************************************************)
(* The evaluator on its own: the screen of a first launch, its load        *)
(* resolved, with an expression in the buffer; "=" is pressed once and     *)
(* handled.                                                                *)
(***************************************************************************)
\* a+b*c, a*b+c and a-b-c for the integers a, b, c up to MaxOperand.
PrecedenceInputs ==
  UNION {{IntToString(a) \o <<"+">> \o IntToString(b) \o <<"*">> \o IntToString(c),
          IntToString(a) \o <<"*">> \o IntToString(b) \o <<"+">> \o IntToString(c),
          IntToString(a) \o <<"-">> \o IntToString(b) \o <<"-">> \o IntToString(c)} :
           a \in 0..MaxOperand, b \in 0..MaxOperand, c \in 0..MaxOperand}

\* The second operands: the digit strings of up to three of these digits,
\* as the editor appends them after an operator, leading zeros included.
OperandDigits == {"0", "1", "9"}

SecondOperands ==
  UNION {[1..n -> OperandDigits] : n \in 1..3}

\* a op b for a first operand up to MaxOperand and a second operand of
\* SecondOperands.
TwoOperandInputs ==
  {IntToString(a) \o <<op>> \o b :
     a \in 0..MaxOperand, op \in OperatorChars, b \in SecondOperands}

\* The dividends of the divisions by zero: the integers up to MaxOperand
\* and operands with several digits or a decimal point.
Dividends ==
  {IntToString(a) : a \in 0..MaxOperand}
    \cup {<<"1", "2">>, <<"1", ".", "5">>, <<".", "5">>, <<"5", ".">>, <<"0", ".", "0">>}

ZeroDivisionInputs == {a \o <<"/", "0">> : a \in Dividends}

\* The powers of ten at the edge of the double range, as the digit keys
\* type them: from the least one whose product with 10^9 is beyond the
\* largest double to the least one that is itself beyond it.
HugeExponents == (DOUBLE_MAX_EXP10 - ROUND_DECIMALS + 1)..(DOUBLE_MAX_EXP10 + 1)

PowerOfTenLiteral(n) == <<"1">> \o [i \in 1..n |-> "0"]

HugeInputs == {PowerOfTenLiteral(n) : n \in HugeExponents}

InitEval ==
  /\ nav = "Calculator"
  /\ expression \in PrecedenceInputs \cup TwoOperandInputs \cup ZeroDivisionInputs
                      \cup HugeInputs
  /\ result = Empty
  /\ history = << >>
  /\ justCalculated = FALSE
  /\ storage = [k \in {HISTORY_KEY, NOTES_KEY} |-> NullItem]
  /\ load = [pc |-> "done", value |-> << >>]
  /\ handlers = << >>
  /\ now = 1
  /\ presses = 0
  /\ seq = [expression |-> expression, result |-> Empty, justCalculated |-> FALSE,
            log |-> << >>, key |-> "none",
            before |-> [expression |-> expression, justCalculated |-> FALSE]]
  /\ NotesIdle

NextEval ==
  \/ PressKey({"="}, 1, 1, TRUE, FALSE)
  \/ \E i \in 1..Len(handlers) : AfterHaptics(i)
  \/ \E i \in 1..Len(handlers) : AfterSaveHistory(i)

SpecEval == InitEval /\ [][NextEval]_vars

(***************************************************************************)
(* lib/storage.ts.  A call of one of its functions is a record of calls:   *)
(* its arguments, who called it, and where it stands (pc): at the await of *)
(* AsyncStorage.getItem, of AsyncStorage.setItem or of                     *)
(* AsyncStorage.multiRemove.  Each of these may resolve or reject, and     *)
(* other calls and handlers may run while a call waits.  A note's content  *)
(* and id are sequences of characters.                                     *)
(***************************************************************************)
\* AsyncStorage.getItem(key): the stored item, or a rejection.
getItem(key, fails) == IF fails THEN Rejected ELSE storage[key]

\* Variant of loadNotes that gives the empty collection whatever it reads.
\* C23 tells it from loadNotes.
loadNotesAlwaysEmpty(item) == << >>

\* loadNotes: the value it resolves to for the item it reads.
loadNotes(item) ==
  IF item \in {Rejected, NullItem, CorruptItem} THEN << >> ELSE JsonParse(item)

\* Variant of saveNotes without the try/catch: a rejected write is raised
\* to the caller.  C24 tells it from saveNotes.
saveNotesRethrows(store, collection, fails) ==
  [storage |-> IF fails THEN store
               ELSE [store EXCEPT ![NOTES_KEY] = JsonStringify(collection)],
   raised |-> fails]

\* Variant of saveNotes that writes under the key of the history.  C29
\* tells it from saveNotes.
saveNotesUnderHistoryKey(store, collection, fails) ==
  [storage |-> IF fails THEN store
               ELSE [store EXCEPT ![HISTORY_KEY] = JsonStringify(collection)],
   raised |-> FALSE]

\* saveNotes: the storage it leaves, and whether it raises.  A rejected
\* setItem is caught and logged.
saveNotes(store, collection, fails) ==
  [storage |-> IF fails THEN store
               ELSE [store EXCEPT ![NOTES_KEY] = JsonStringify(collection)],
   raised |-> FALSE]

\* saveHistory, likewise.
saveHistory(store, collection, fails) ==
  [storage |-> IF fails THEN store
               ELSE [store EXCEPT ![HISTORY_KEY] = JsonStringify(collection)],
   raised |-> FALSE]

\* clearAllData: multiRemove of both keys; a rejection is caught and logged.
clearAllData(store, fails) ==
  [storage |-> IF fails THEN store ELSE [k \in DOMAIN store |-> NullItem],
   raised |-> FALSE]

\* Math.random().toString(36).substring(2, 9): two of its values.
RandomSuffixes == {<<"x">>, <<"y">>}

\* addNote: the note it builds.
newNote(content, time, random) ==
  [id |-> IntToString(time) \o random, content |-> content, timestamp |-> time]

\* Variant of addedNotes that puts the new note last.  C25
\* tells it from the spread.
addedNotesLast(note, collection) == Append(collection, note)

\* addNote: [newNote, ...notes]
addedNotes(note, collection) == <<note>> \o collection

\* notes.findIndex((note) => note.id === id)
findIndex(collection, id) ==
  LET hits == {k \in 1..Len(collection) : collection[k].id = id}
  IN  IF hits = {} THEN -1 ELSE CHOOSE k \in hits : \A j \in hits : k <= j

\* Variant of changedNotes that changes every note of the id.  C26 tells it
\* from the assignment to notes[noteIndex].
changedNotesEvery(collection, noteIndex, content, time) ==
  [k \in 1..Len(collection) |->
     IF collection[k].id = collection[noteIndex].id
       THEN [collection[k] EXCEPT !.content = content, !.timestamp = time]
       ELSE collection[k]]

\* updateNote: notes[noteIndex] = {...notes[noteIndex], content, timestamp}
changedNotes(collection, noteIndex, content, time) ==
  [collection EXCEPT ![noteIndex] = [@ EXCEPT !.content = content, !.timestamp = time]]

\* Variant of remainingNotes that removes only the first note of the id.
\* C27 tells it from the filter.
remainingNotesFirstOnly(collection, id) ==
  IF findIndex(collection, id) = -1 THEN collection
  ELSE RemoveAt(collection, findIndex(collection, id))

\* deleteNote: notes.filter((note) => note.id !== id)
remainingNotes(collection, id) ==
  SelectSeq(collection, LAMBDA note : note.id # id)

\* getNoteById: notes.find((note) => note.id === id) || null
foundNote(collection, id) ==
  IF findIndex(collection, id) = -1 THEN NullItem
  ELSE collection[findIndex(collection, id)]

\* The storage key a function works on.
KeyOf(op) == IF op \in {"loadHistory", "saveHistory"} THEN HISTORY_KEY ELSE NOTES_KEY

\* The call of a function, up to its first await.  collection is the
\* argument of saveNotes and saveHistory and, in addNote, updateNote and
\* deleteNote, the collection handed to saveNotes.
NewCall(op, caller, id, content, collection) ==
  [op |-> op, caller |-> caller, id |-> id, content |-> content,
   collection |-> collection,
   pc |-> IF op \in {"saveNotes", "saveHistory"} THEN "setItem"
          ELSE IF op = "clearAllData" THEN "multiRemove" ELSE "getItem",
   ret |-> NullItem, readFailed |-> FALSE]

\* useFocusEffect of the notes screen: loadNotesFromStorage.
FocusLoad == NewCall("loadNotes", "loadNotesFromStorage", << >>, << >>, << >>)

\* Call i, which is c, completes with the value ret, or raises: the caller
\* goes on.  loadNotesFromStorage sets the list; loadNote fills the editor;
\* handleSave goes back to the notes screen, which gains the focus and
\* reloads its list, or shows its alert when the call raised; the "Delete"
\* of handleDeleteNote calls loadNotesFromStorage; a call made directly has
\* no caller in the application.
Complete(i, c, ret, raised, wrote, writeFailed) ==
  /\ returned' = [op |-> c.op, n |-> returned.n + 1,
                  caller |-> c.caller, id |-> c.id, content |-> c.content,
                  ret |-> ret, raised |-> raised, readFailed |-> c.readFailed,
                  wrote |-> wrote, writeFailed |-> writeFailed]
  /\ CASE c.caller = "loadNotesFromStorage" ->
            /\ notes' = ret
            /\ calls' = RemoveAt(calls, i)
            /\ UNCHANGED <<nav, edit, alert>>
       [] c.caller = "loadNote" ->
            /\ edit' = IF ret # NullItem
                         THEN [edit EXCEPT !.content = ret.content, !.originalNote = ret,
                                           !.isLoading = FALSE]
                         ELSE [edit EXCEPT !.isLoading = FALSE]
            /\ calls' = RemoveAt(calls, i)
            /\ UNCHANGED <<nav, notes, alert>>
       [] c.caller = "handleSave" ->
            IF raised
              THEN /\ alert' = "Failed to save note"
                   /\ edit' = [edit EXCEPT !.isSaving = FALSE, !.save = "idle"]
                   /\ calls' = RemoveAt(calls, i)
                   /\ UNCHANGED <<nav, notes>>
              ELSE /\ nav' = "Notes"
                   /\ edit' = NoEdit
                   /\ calls' = Append(RemoveAt(calls, i), FocusLoad)
                   /\ UNCHANGED <<notes, alert>>
       [] c.caller = "handleDeleteNote" ->
            /\ calls' = Append(RemoveAt(calls, i), FocusLoad)
            /\ UNCHANGED <<nav, notes, edit, alert>>
       [] OTHER ->
            /\ calls' = RemoveAt(calls, i)
            /\ UNCHANGED <<nav, notes, edit, alert>>

\* Call i goes on to its saveNotes with the collection to write.
ToSaveNotes(i, c, collection, ret) ==
  /\ calls' = [calls EXCEPT ![i] = [c EXCEPT !.pc = "setItem", !.collection = collection,
                                             !.ret = ret]]
  /\ UNCHANGED <<returned, nav, notes, edit, alert>>

\* The getItem of call i resolves or rejects: loadNotes and loadHistory
\* return; getNoteById, addNote, updateNote and deleteNote go on with what
\* loadNotes gave them, to their return or to their saveNotes.
CallGetItem(i, fails, random) ==
  LET item == getItem(KeyOf(calls[i].op), fails)
      c == [calls[i] EXCEPT !.readFailed = item \in {Rejected, CorruptItem}]
      loaded == IF c.op = "loadHistory" THEN loadHistory(item) ELSE loadNotes(item)
      noteIndex == findIndex(loaded, c.id)
      changed == changedNotes(loaded, noteIndex, c.content, now)
  IN  /\ calls[i].pc = "getItem"
      /\ CASE c.op \in {"loadNotes", "loadHistory"} ->
                Complete(i, c, loaded, FALSE, FALSE, FALSE)
           [] c.op = "getNoteById" ->
                Complete(i, c, foundNote(loaded, c.id), FALSE, FALSE, FALSE)
           [] c.op = "addNote" ->
                ToSaveNotes(i, c, addedNotes(newNote(c.content, now, random), loaded),
                            newNote(c.content, now, random))
           [] c.op = "updateNote" ->
                IF noteIndex = -1 THEN Complete(i, c, NullItem, FALSE, FALSE, FALSE)
                ELSE ToSaveNotes(i, c, changed, changed[noteIndex])
           [] c.op = "deleteNote" ->
                IF Len(remainingNotes(loaded, c.id)) = Len(loaded)
                  THEN Complete(i, c, FALSE, FALSE, FALSE, FALSE)
                  ELSE ToSaveNotes(i, c, remainingNotes(loaded, c.id), TRUE)
      /\ UNCHANGED <<expression, result, history, justCalculated, storage, load,
                     handlers, now, presses, seq>>

\* The setItem of call i resolves or rejects, and the call returns.
CallSetItem(i, fails) ==
  LET c == calls[i]
      saved == IF c.op = "saveHistory" THEN saveHistory(storage, c.collection, fails)
               ELSE saveNotes(storage, c.collection, fails)
  IN  /\ c.pc = "setItem"
      /\ storage' = saved.storage
      /\ Complete(i, c, c.ret, saved.raised, TRUE, fails)
      /\ UNCHANGED <<expression, result, history, justCalculated, load,
                     handlers, now, presses, seq>>

\* The multiRemove of clearAllData resolves or rejects, and the call returns.
CallMultiRemove(i, fails) ==
  LET c == calls[i]
      cleared == clearAllData(storage, fails)
  IN  /\ c.pc = "multiRemove"
      /\ storage' = cleared.storage
      /\ Complete(i, c, c.ret, cleared.raised, TRUE, fails)
      /\ UNCHANGED <<expression, result, history, justCalculated, load,
                     handlers, now, presses, seq>>

\* What runs between the calls: the continuations of the calls in flight.
ContinueCalls ==
  \/ \E i \in 1..Len(calls), fails \in BOOLEAN, random \in RandomSuffixes :
       CallGetItem(i, fails, random)
  \/ \E i \in 1..Len(calls), fails \in BOOLEAN : CallSetItem(i, fails)
  \/ \E i \in 1..Len(calls), fails \in BOOLEAN : CallMultiRemove(i, fails)

(***************************************************************************)
(* The functions of lib/storage.ts called directly, one call at a time:    *)
(* the storage holds what an earlier session left, and each call is made   *)
(* once the one before has returned.                                       *)
(***************************************************************************)
\* The notes an earlier session left, newest first.
OlderNotes ==
  <<[id |-> <<"0", "x">>, content |-> <<"a">>, timestamp |-> 0],
    [id |-> <<"0", "y">>, content |-> <<"b">>, timestamp |-> 0]>>

\* What the storage holds at the start: no notes or the older notes, and
\* no history or the earlier history; or texts that do not parse.
InitialNotesStorage ==
  {[k \in {HISTORY_KEY, NOTES_KEY} |-> IF k = HISTORY_KEY THEN h ELSE n] :
     h \in {NullItem, JsonStringify(EarlierHistory)},
     n \in {NullItem, JsonStringify(OlderNotes)}}
    \cup {[k \in {HISTORY_KEY, NOTES_KEY} |-> CorruptItem]}

\* The arguments of the direct calls: the id of an older note, of a note
\* added at time 1 and of no note; two contents; two collections to save.
ApiIds == {<<"0", "x">>, <<"1", "x">>, <<"9", "z">>}
ApiContents == {<<"a">>, <<"c">>}

ApiCalls ==
  {NewCall(op, "api", << >>, << >>, << >>) : op \in {"loadNotes", "loadHistory", "clearAllData"}}
    \cup {NewCall("saveNotes", "api", << >>, << >>, c) : c \in {<< >>, OlderNotes}}
    \cup {NewCall("saveHistory", "api", << >>, << >>, c) : c \in {<< >>, EarlierHistory}}
    \cup {NewCall("addNote", "api", << >>, content, << >>) : content \in ApiContents}
    \cup {NewCall("updateNote", "api", id, content, << >>) :
            id \in ApiIds, content \in ApiContents}
    \cup {NewCall(op, "api", id, << >>, << >>) :
            op \in {"deleteNote", "getNoteById"}, id \in ApiIds}

\* The direct calls of the three functions that change the notes.
NoteCalls ==
  {c \in ApiCalls : /\ c.op \in {"addNote", "updateNote", "deleteNote"}
                    /\ c.id \in {<< >>, <<"0", "x">>}
                    /\ c.content \in {<< >>, <<"c">>}}

\* A function is called directly, with a call of apiCalls: at most maxCalls
\* calls, keys and taps in a session, only while fewer than maxPending
\* calls are in flight.
ApiCall(apiCalls, maxCalls, maxPending) ==
  /\ presses < maxCalls
  /\ Len(calls) < maxPending
  /\ \E c \in apiCalls : calls' = Append(calls, c)
  /\ presses' = presses + 1
  /\ UNCHANGED <<nav, expression, result, history, justCalculated, storage, load,
                 handlers, now, seq, returned, notes, edit, alert>>

InitStorage ==
  /\ nav = "Calculator"
  /\ expression = Str0
  /\ result = Empty
  /\ storage \in InitialNotesStorage
  /\ history = loadHistory(storage[HISTORY_KEY])
  /\ justCalculated = FALSE
  /\ load = [pc |-> "done", value |-> << >>]
  /\ handlers = << >>
  /\ now = 1
  /\ presses = 0
  /\ seq = [expression |-> Str0, result |-> Empty, justCalculated |-> FALSE,
            log |-> Entries(history), key |-> "none",
            before |-> [expression |-> Str0, justCalculated |-> FALSE]]
  /\ NotesIdle

NextStorageSeq ==
  \/ ApiCall(ApiCalls, StorageCalls, 1)
  \/ ContinueCalls

SpecStorageSeq == InitStorage /\ [][NextStorageSeq]_vars

(***************************************************************************)
(* The notes screen and the editor (EditNoteScreen).  The vault is open:   *)
(* the notes screen is on top and its focus effect has started             *)
(* loadNotesFromStorage.  The editor's handleSave is async: it awaits the  *)
(* haptic feedback, then addNote or updateNote, then goes back.            *)
(***************************************************************************)
\* content.trim(), for the whitespace the explored texts hold.
Whitespace == {" "}

RECURSIVE trimStart(_)
trimStart(s) == IF s # << >> /\ s[1] \in Whitespace THEN trimStart(Tail(s)) ELSE s

RECURSIVE trimEnd(_)
trimEnd(s) == IF s # << >> /\ s[Len(s)] \in Whitespace THEN trimEnd(DropLast(s)) ELSE s

trim(s) == trimEnd(trimStart(s))

\* The texts typed into the editor.
Texts == {<< >>, <<" ">>, <<"c">>, <<"c", " ">>}

\* A tap or a text change: at most maxPresses keys, taps and direct calls
\* in a session.
Tapped(maxPresses) ==
  /\ presses < maxPresses
  /\ presses' = presses + 1

\* No "Delete Note" alert is on the screen: an alert takes the taps until
\* one of its buttons is pressed.
NoAlertPending == \A i \in 1..Len(calls) : calls[i].pc # "alert"

\* handleCreateNote: the editor opens without a noteId.
handleCreateNote(maxPresses) ==
  /\ nav = "Notes"
  /\ NoAlertPending
  /\ Tapped(maxPresses)
  /\ nav' = "EditNote"
  /\ edit' = [mounted |-> TRUE, noteId |-> NullItem, content |-> << >>,
              isLoading |-> FALSE, isSaving |-> FALSE, originalNote |-> NullItem,
              save |-> "idle", trimmedContent |-> << >>]
  /\ UNCHANGED <<expression, result, history, justCalculated, storage, load, handlers,
                 now, seq, calls, returned, notes, alert>>

\* handleEditNote: a listed note is pressed; the editor opens on its id and
\* its mount effect starts loadNote.
handleEditNote(maxPresses) ==
  /\ nav = "Notes"
  /\ NoAlertPending
  /\ Tapped(maxPresses)
  /\ \E k \in 1..Len(notes) :
       /\ edit' = [mounted |-> TRUE, noteId |-> notes[k].id, content |-> << >>,
                   isLoading |-> TRUE, isSaving |-> FALSE, originalNote |-> NullItem,
                   save |-> "idle", trimmedContent |-> << >>]
       /\ calls' = Append(calls, NewCall("getNoteById", "loadNote", notes[k].id, << >>, << >>))
  /\ nav' = "EditNote"
  /\ UNCHANGED <<expression, result, history, justCalculated, storage, load, handlers,
                 now, seq, returned, notes, alert>>

\* onChangeText={setContent}: the text of the input changes; the input is
\* shown once loadNote is done.
onChangeText(maxPresses) ==
  /\ nav = "EditNote"
  /\ ~edit.isLoading
  /\ Tapped(maxPresses)
  /\ \E text \in Texts :
       /\ text # edit.content
       /\ edit' = [edit EXCEPT !.content = text]
  /\ UNCHANGED <<nav, expression, result, history, justCalculated, storage, load,
                 handlers, now, seq, calls, returned, notes, alert>>

\* Variant of handleSave that tests the content as typed, not trimmed.  C31
\* tells it from handleSave.
handleSaveUntrimmedTest(maxPresses) ==
  /\ nav = "EditNote"
  /\ ~edit.isLoading
  /\ ~edit.isSaving
  /\ Tapped(maxPresses)
  /\ IF Len(edit.content) = 0
       THEN /\ alert' = "Empty Note"
            /\ UNCHANGED edit
       ELSE /\ edit' = [edit EXCEPT !.isSaving = TRUE, !.save = "haptics",
                                    !.trimmedContent = trim(edit.content)]
            /\ UNCHANGED alert
  /\ UNCHANGED <<nav, expression, result, history, justCalculated, storage, load,
                 handlers, now, seq, calls, returned, notes>>

\* handleSave up to its first await; the button is disabled while saving.
handleSave(maxPresses) ==
  /\ nav = "EditNote"
  /\ ~edit.isLoading
  /\ ~edit.isSaving
  /\ Tapped(maxPresses)
  /\ IF Len(trim(edit.content)) = 0
       THEN /\ alert' = "Empty Note"
            /\ UNCHANGED edit
       ELSE /\ edit' = [edit EXCEPT !.isSaving = TRUE, !.save = "haptics",
                                    !.trimmedContent = trim(edit.content)]
            /\ UNCHANGED alert
  /\ UNCHANGED <<nav, expression, result, history, justCalculated, storage, load,
                 handlers, now, seq, calls, returned, notes>>

\* The haptic feedback of handleSave resolves: updateNote or addNote is
\* called.
SaveAfterHaptics ==
  /\ edit.mounted
  /\ edit.save = "haptics"
  /\ edit' = [edit EXCEPT !.save = "storage"]
  /\ calls' = Append(calls,
       IF edit.noteId # NullItem
         THEN NewCall("updateNote", "handleSave", edit.noteId, edit.trimmedContent, << >>)
         ELSE NewCall("addNote", "handleSave", << >>, edit.trimmedContent, << >>))
  /\ UNCHANGED <<nav, expression, result, history, justCalculated, storage, load,
                 handlers, now, presses, seq, returned, notes, alert>>

InitApp ==
  /\ nav = "Notes"
  /\ expression = Str0
  /\ result = Empty
  /\ storage \in InitialNotesStorage
  /\ history = loadHistory(storage[HISTORY_KEY])
  /\ justCalculated = FALSE
  /\ load = [pc |-> "done", value |-> << >>]
  /\ handlers = << >>
  /\ now = 1
  /\ presses = 0
  /\ seq = [expression |-> Str0, result |-> Empty, justCalculated |-> FALSE,
            log |-> Entries(history), key |-> "none",
            before |-> [expression |-> Str0, justCalculated |-> FALSE]]
  /\ calls = <<FocusLoad>>
  /\ returned = NoReturn
  /\ notes = << >>
  /\ edit = NoEdit
  /\ alert = "none"

\* The notes side with the vault open: notes are listed, edited and saved,
\* and the functions of lib/storage.ts are also called directly, while
\* other calls are in flight.
NextNotes ==
  \/ handleCreateNote(NotesPresses)
  \/ handleEditNote(NotesPresses)
  \/ onChangeText(NotesPresses)
  \/ handleSave(NotesPresses)
  \/ SaveAfterHaptics
  \/ ApiCall(ApiCalls, NotesPresses, MaxPending)
  \/ ContinueCalls

SpecNotes == InitApp /\ [][NextNotes]_vars

\* The keys of the calculator pressed in SpecApp.
AppKeys == {"7", "=", "C"}

\* The whole application with the vault open: notes are edited and saved,
\* added, updated and deleted, the calculator is returned to and its keys
\* pressed, while calls and handlers are in flight.
NextApp ==
  \/ handleCreateNote(AppPresses)
  \/ handleEditNote(AppPresses)
  \/ onChangeText(AppPresses)
  \/ handleSave(AppPresses)
  \/ SaveAfterHaptics
  \/ ApiCall(NoteCalls, AppPresses, MaxPending)
  \/ \E i \in 1..Len(calls), fails \in BOOLEAN, random \in RandomSuffixes :
       CallGetItem(i, fails, random)
  \/ \E i \in 1..Len(calls), fails \in BOOLEAN : CallSetItem(i, fails)
  \/ handleReturnToCalculator
  \/ PressKey(AppKeys, AppPresses, MaxPending, TRUE, FALSE)
  \/ \E i \in 1..Len(handlers) : AfterHaptics(i)
  \/ \E i \in 1..Len(handlers) : AfterSaveHistory(i)

SpecApp == InitApp /\ [][NextApp]_vars

(***************************************************************************)
(* handleDeleteNote of the notes screen: it awaits the haptic feedback,    *)
(* shows the "Delete Note" alert, and the alert's "Delete" button calls    *)
(* deleteNote and then loadNotesFromStorage.  The handler is kept in calls *)
(* from the tap on: at "haptics", then at "alert", then as the deleteNote  *)
(* call.                                                                   *)
(***************************************************************************)
\* The delete button of a listed note is pressed.
handleDeleteNote(maxPresses) ==
  /\ nav = "Notes"
  /\ NoAlertPending
  /\ Tapped(maxPresses)
  /\ \E k \in 1..Len(notes) :
       calls' = Append(calls,
         [NewCall("deleteNote", "handleDeleteNote", notes[k].id, << >>, << >>)
            EXCEPT !.pc = "haptics"])
  /\ UNCHANGED <<nav, expression, result, history, justCalculated, storage, load,
                 handlers, now, seq, returned, notes, edit, alert>>

\* The haptic feedback resolves: the alert is shown.
DeleteAfterHaptics(i) ==
  /\ calls[i].pc = "haptics"
  /\ NoAlertPending
  /\ calls' = [calls EXCEPT ![i].pc = "alert"]
  /\ alert' = "Delete Note"
  /\ UNCHANGED <<nav, expression, result, history, justCalculated, storage, load,
                 handlers, now, presses, seq, returned, notes, edit>>

\* "Delete" is pressed: deleteNote is called.
ConfirmDelete(i) ==
  /\ calls[i].pc = "alert"
  /\ calls' = [calls EXCEPT ![i].pc = "getItem"]
  /\ UNCHANGED <<nav, expression, result, history, justCalculated, storage, load,
                 handlers, now, presses, seq, returned, notes, edit, alert>>

\* "Cancel" is pressed: nothing is called.
CancelDelete(i) ==
  /\ calls[i].pc = "alert"
  /\ calls' = RemoveAt(calls, i)
  /\ UNCHANGED <<nav, expression, result, history, justCalculated, storage, load,
                 handlers, now, presses, seq, returned, notes, edit, alert>>

\* The notes screen and the editor used as the user can: notes are deleted
\* from the list, created, edited and saved while earlier calls are in
\* flight.
NextList ==
  \/ handleDeleteNote(ListPresses)
  \/ \E i \in 1..Len(calls) : DeleteAfterHaptics(i)
  \/ \E i \in 1..Len(calls) : ConfirmDelete(i)
  \/ \E i \in 1..Len(calls) : CancelDelete(i)
  \/ handleCreateNote(ListPresses)
  \/ handleEditNote(ListPresses)
  \/ onChangeText(ListPresses)
  \/ handleSave(ListPresses)
  \/ SaveAfterHaptics
  \/ \E i \in 1..Len(calls), fails \in BOOLEAN, random \in RandomSuffixes :
       CallGetItem(i, fails, random)
  \/ \E i \in 1..Len(calls), fails \in BOOLEAN : CallSetItem(i, fails)

SpecList == InitApp /\ [][NextList]_vars

(***************************************************************************)
(* Steps of a handler, as seen from a pair of states.                      *)
(***************************************************************************)
\* Handler i returned in this step.
Returned(i) == Len(handlers') < Len(handlers) /\ handlers' = RemoveAt(handlers, i)

\* Handler i went from its haptics await to its saveHistory await in this step.
WentToSave(i) ==
  /\ Len(handlers') = Len(handlers)
  /\ handlers[i].pc = "haptics"
  /\ handlers'[i].pc = "saveHistory"

\* The haptics await of handler i resolved in this step: the handler ran
\* its branch, to its return or to its saveHistory await.
Resumed(i) == handlers[i].pc = "haptics" /\ (Returned(i) \/ WentToSave(i))

\* The history collection the storage holds.
StoredHistory == loadHistory(storage[HISTORY_KEY])

(***************************************************************************)
(* C1.  Whenever "=" is pressed while the buffer is exactly "69/67", the   *)
(* handler navigates to the Notes screen, sets the buffer to "0" and the   *)
(* displayed result to the empty string (never "Error"), adds no history   *)
(* entry in memory and issues no history write: it returns without         *)
(* reaching saveHistory and the storage is unchanged.                      *)
(***************************************************************************)
C1_SecretOpensVault ==
  [][\A i \in 1..Len(handlers) :
       (Resumed(i) /\ handlers[i].key = "=" /\ handlers[i].closure.expression = SECRET_CODE)
         => /\ nav' = "Notes"
            /\ expression' = Str0
            /\ result' = Empty
            /\ history' = history
            /\ storage' = storage
            /\ Returned(i)]_vars

\* The secret code was typed and "=" handled: the notes screen is on top
\* and the buffer is back to "0".
C1_Witness ==
  /\ nav = "Notes"
  /\ handlers = << >>
  /\ expression = Str0
  /\ result = Empty
  /\ presses = 6

(***************************************************************************)
(* C2.  The Notes screen is reached from the Calculator screen only by an  *)
(* "=" press whose buffer equals "69/67" in full; for every other buffer   *)
(* (proper prefixes such as "696" and "69/6", near-misses such as "69/66"  *)
(* and "69/68") "=" does not navigate and takes the evaluation path: an    *)
(* error is shown, or the value becomes the newest history entry and is    *)
(* kept to be shown after the save.                                        *)
(***************************************************************************)
NearMiss == <<"6", "9", "/", "6", "8">>

FromEvaluation(hist) ==
  \A j \in 1..Len(hist) :
    /\ hist[j].result # ErrorStr
    /\ hist[j].expression # SECRET_CODE
    /\ hist[j].result = evaluateExpression(hist[j].expression)

C3_HistoryOnlySuccesses ==
  /\ FromEvaluation(history)
  /\ FromEvaluation(StoredHistory)
  /\ FromEvaluation(load.value)
  /\ \A i \in 1..Len(handlers) : FromEvaluation(handlers[i].saving)

\* An evaluation failed in a session that recorded another one: the error
\* is displayed, and the ledger and the storage hold the entries of the
\* successful evaluations only.
C3_Witness ==
  /\ result = ErrorStr
  /\ handlers = << >>
  /\ Len(history) >= 2
  /\ StoredHistory = history

C6_ErrorKeepsBuffer ==
  [][\A i \in 1..Len(handlers) :
       /\ (/\ Resumed(i)
           /\ handlers[i].key = "="
           /\ handlers[i].closure.expression # SECRET_CODE
           /\ evaluateExpression(handlers[i].closure.expression) = ErrorStr)
            => /\ result' = ErrorStr
               /\ expression' = expression
               /\ history' = history
               /\ storage' = storage
               /\ nav' = nav
               /\ Returned(i)
       /\ (/\ Resumed(i)
           /\ handlers[i].key = "DEL"
           /\ result = ErrorStr
           /\ justCalculated)
            => /\ expression' = IF Len(expression) > 1 THEN DropLast(expression) ELSE Str0
               /\ result' = ErrorStr
               /\ history' = history]_vars

\* "6/" was evaluated to an error and "DEL" handled next: the buffer is
\* "6" and the error still displayed.
C6_Witness ==
  /\ seq.key = "DEL"
  /\ handlers = << >>
  /\ result = ErrorStr
  /\ expression = <<"6">>
  /\ ~justCalculated

(***************************************************************************)
(* C7.  Each keypress is one transaction: once the mount-time load and     *)
(* every handler have finished, the buffer, the result, the                *)
(* just-calculated flag and the ledger are those of handling the keys one  *)
(* at a time in the order they were pressed.                               *)
(***************************************************************************)
C7_PressOrderOutcome ==
  (handlers = << >> /\ load.pc = "done")
    => /\ expression = seq.expression
       /\ result = seq.result
       /\ justCalculated = seq.justCalculated
       /\ Entries(history) = Take(seq.log, HISTORY_LIMIT)

(***************************************************************************)
(* C8.  No successful evaluation's entry is lost to a later one: when the  *)
(* handler of a successful "=" records its entry, the entry goes           *)
(* immediately in front of the entries the ledger holds, those of the      *)
(* evaluations handled before it, and the snapshot it writes to the        *)
(* storage is that ledger.                                                 *)
(***************************************************************************)
C8_EntryInFrontOfEarlier ==
  [][\A i \in 1..Len(handlers) :
       (handlers[i].key = "=" /\ WentToSave(i))
         => /\ history'[1].expression = handlers[i].closure.expression
            /\ \A j \in 1..Len(history) :
                 j < HISTORY_LIMIT
                   => (j + 1 <= Len(history') /\ history'[j + 1] = history[j])
            /\ handlers'[i].saving = history']_vars

(***************************************************************************)
(* C9.  If "C" is the last key pressed, then once every handler has        *)
(* finished the ledger in memory and the stored history are both empty.    *)
(***************************************************************************)
C9_ClearIsLast ==
  (seq.key = "C" /\ handlers = << >> /\ load.pc = "done")
    => (history = << >> /\ StoredHistory = << >>)

(***************************************************************************)
(* C10.  The mount-time load never removes an entry the ledger holds when  *)
(* it resolves (entries recorded by "=" handled before), nor fills a       *)
(* ledger a handled "C" emptied; and once the load and every handler have  *)
(* finished, the ledger in memory equals the stored history.               *)
(***************************************************************************)
C10_LoadKeepsLedger ==
  [][/\ (load.pc = "then" /\ load'.pc = "done")
          => /\ \A j \in 1..Len(history) :
                  \E k \in 1..Len(history') : history'[k] = history[j]
             /\ (\E i \in 1..Len(handlers) :
                    handlers[i].key = "C" /\ handlers[i].pc = "saveHistory")
                  => history' = << >>
     /\ (load'.pc = "done" /\ handlers' = << >>) => history' = StoredHistory'
    ]_vars

(***************************************************************************)
(* C11.  In every state reachable by keypresses the buffer is a non-empty  *)
(* string whose characters all belong to the alphabet of digits, ".", "+", *)
(* "-", "*" and "/".                                                       *)
(***************************************************************************)
BufferAlphabet == DigitChars \cup OperatorChars \cup {"."}

C11_BufferAlphabet ==
  /\ expression # << >>
  /\ \A k \in 1..Len(expression) : expression[k] \in BufferAlphabet

(***************************************************************************)
(* C12.  In every state reachable by keypresses the first character of     *)
(* the buffer is not an operator.                                          *)
(***************************************************************************)
C12_NoLeadingOperator ==
  expression # << >> => expression[1] \notin OperatorChars

(***************************************************************************)
(* C13.  An operator key pressed while the just-calculated flag is false   *)
(* and handled while the buffer ends in an operator replaces that trailing *)
(* operator, the length of the buffer unchanged ("5-" then "*" gives       *)
(* "5*"); and under any sequence and interleaving of keypresses the buffer *)
(* never holds two adjacent operators.                                     *)
(***************************************************************************)
EndsInOperator(s) == s # << >> /\ s[Len(s)] \in OperatorChars

NoAdjacentOperators(s) ==
  \A k \in 1..(Len(s) - 1) : ~(s[k] \in OperatorChars /\ s[k + 1] \in OperatorChars)

C13_TrailingOperatorReplaced ==
  [][/\ \A i \in 1..Len(handlers) :
          (/\ Resumed(i)
           /\ handlers[i].key \in OperatorChars
           /\ ~handlers[i].closure.justCalculated
           /\ EndsInOperator(expression))
            => /\ expression' = DropLast(expression) \o <<handlers[i].key>>
               /\ Len(expression') = Len(expression)
     /\ NoAdjacentOperators(expression)
     /\ NoAdjacentOperators(expression')]_vars

\* C13 as stated, whatever the just-calculated flag: every operator key
\* handled while the buffer ends in an operator replaces that operator.
C13_OperatorAlwaysReplaced ==
  [][/\ \A i \in 1..Len(handlers) :
          (/\ Resumed(i)
           /\ handlers[i].key \in OperatorChars
           /\ EndsInOperator(expression))
            => /\ expression' = DropLast(expression) \o <<handlers[i].key>>
               /\ Len(expression') = Len(expression)
     /\ NoAdjacentOperators(expression)
     /\ NoAdjacentOperators(expression')]_vars

\* "*" was the last key pressed, on the buffer "5-" with the flag false,
\* and every handler has finished: the buffer is "5*".
C13_Witness ==
  /\ seq.key = "*"
  /\ seq.before = [expression |-> <<"5", "-">>, justCalculated |-> FALSE]
  /\ handlers = << >>
  /\ expression = <<"5", "*">>
  /\ seq.expression = expression

(***************************************************************************)
(* C14.  A "." handled while the operand after the last operator of the    *)
(* buffer holds a "." leaves the buffer unchanged, otherwise it is         *)
(* appended; and in every reachable state each operand of the buffer (a    *)
(* maximal run between operators or the buffer's edges) holds at most one  *)
(* ".".                                                                    *)
(***************************************************************************)
LastOperand(s) == SubSeq(s, LastIndexIn(s, OperatorChars) + 1, Len(s))

HasDot(s) == \E k \in 1..Len(s) : s[k] = "."

OneDotPerOperand(s) ==
  \A j, k \in 1..Len(s) :
    (j < k /\ s[j] = "." /\ s[k] = ".")
      => \E m \in (j + 1)..(k - 1) : s[m] \in OperatorChars

C14_DecimalGuard ==
  [][/\ \A i \in 1..Len(handlers) :
          (Resumed(i) /\ handlers[i].key = ".")
            => expression' = IF HasDot(LastOperand(expression))
                               THEN expression
                               ELSE expression \o <<".">>
     /\ OneDotPerOperand(expression)
     /\ OneDotPerOperand(expression')]_vars

\* "." was the last key pressed, on the buffer "0.5", and every handler
\* has finished: the buffer is still "0.5".
C14_Witness ==
  /\ seq.key = "."
  /\ seq.before.expression = <<"0", ".", "5">>
  /\ handlers = << >>
  /\ expression = <<"0", ".", "5">>
  /\ seq.expression = expression

(***************************************************************************)
(* C15.  When the buffer is exactly "0" and the just-calculated flag is    *)
(* false, a digit d makes the buffer exactly d, never "0" followed by d;   *)
(* the digit "0" leaves the buffer "0".                                    *)
(***************************************************************************)
C15_LeadingZeroCollapse ==
  [][\A i \in 1..Len(handlers) :
       (/\ Resumed(i)
        /\ handlers[i].key \in DigitChars
        /\ expression = Str0
        /\ ~justCalculated)
         => /\ expression' = <<handlers[i].key>>
            /\ (handlers[i].key = "0" => expression' = Str0)]_vars

\* "5" was pressed on the buffer "0" with the flag false and handled: the
\* buffer is "5".
C15_Witness ==
  /\ seq.key = "5"
  /\ seq.before = [expression |-> Str0, justCalculated |-> FALSE]
  /\ handlers = << >>
  /\ expression = <<"5">>

(***************************************************************************)
(* C16.  "DEL" removes exactly the last character of the buffer, except    *)
(* that a buffer of one character becomes "0"; it sets the just-calculated *)
(* flag to false, leaves the displayed result, the ledger and the storage  *)
(* unchanged, and returns without a write.                                 *)
(***************************************************************************)
C16_DeleteLastCharacter ==
  [][\A i \in 1..Len(handlers) :
       (Resumed(i) /\ handlers[i].key = "DEL")
         => /\ Len(expression) >= 1
            /\ expression' = IF Len(expression) = 1 THEN Str0 ELSE DropLast(expression)
            /\ justCalculated' = FALSE
            /\ result' = result
            /\ history' = history
            /\ storage' = storage
            /\ Returned(i)]_vars

\* "DEL" was the last key pressed, right after the evaluation of "5*5",
\* and every handler has finished: the buffer is "5*", the flag false and
\* the result still displayed.
C16_Witness ==
  /\ seq.key = "DEL"
  /\ seq.before = [expression |-> <<"5", "*", "5">>, justCalculated |-> TRUE]
  /\ handlers = << >>
  /\ expression = <<"5", "*">>
  /\ ~justCalculated
  /\ result = <<"2", "5">>
  /\ Len(history) >= 1

(***************************************************************************)
(* C17.  When the just-calculated flag is true, a digit d replaces the     *)
(* whole buffer with d, whatever the buffer was, clears the flag and       *)
(* leaves the displayed result and the ledger unchanged.                   *)
(***************************************************************************)
C17_DigitStartsFresh ==
  [][\A i \in 1..Len(handlers) :
       (Resumed(i) /\ handlers[i].key \in DigitChars /\ justCalculated)
         => /\ expression' = <<handlers[i].key>>
            /\ justCalculated' = FALSE
            /\ result' = result
            /\ history' = history]_vars

\* "5" was pressed right after the evaluation of "5*5" and handled: the
\* buffer is "5" and the result "25" still displayed.
C17_Witness ==
  /\ seq.key = "5"
  /\ seq.before = [expression |-> <<"5", "*", "5">>, justCalculated |-> TRUE]
  /\ handlers = << >>
  /\ expression = <<"5">>
  /\ ~justCalculated
  /\ result = <<"2", "5">>

(***************************************************************************)
(* C18.  When the just-calculated flag is true, an operator o makes the    *)
(* buffer the displayed result of the previous "=" followed by o, whatever *)
(* the buffer was, clears the flag and leaves the displayed result and the *)
(* ledger unchanged.                                                       *)
(***************************************************************************)
C18_OperatorChainsResult ==
  [][\A i \in 1..Len(handlers) :
       (Resumed(i) /\ handlers[i].key \in OperatorChars /\ justCalculated)
         => /\ expression' = result \o <<handlers[i].key>>
            /\ justCalculated' = FALSE
            /\ result' = result
            /\ history' = history]_vars

\* "-" was pressed right after the evaluation of "5*5" and handled: the
\* buffer is "25-" and the result "25" still displayed.
C18_Witness ==
  /\ seq.key = "-"
  /\ seq.before = [expression |-> <<"5", "*", "5">>, justCalculated |-> TRUE]
  /\ handlers = << >>
  /\ expression = <<"2", "5", "-">>
  /\ ~justCalculated
  /\ result = <<"2", "5">>

(***************************************************************************)
(* C19.  The evaluation applies "*" and "/" before "+" and "-" and is      *)
(* left-associative within a level: for the integers a, b, c up to         *)
(* MaxOperand, "a+b*c" gives a+(b*c), "a*b+c" gives (a*b)+c and "a-b-c"    *)
(* gives (a-b)-c, as decimal strings; "2+3*4" gives "14" and "2*3+4"       *)
(* gives "10".                                                             *)
(***************************************************************************)
SignedToString(n) == IF n < 0 THEN <<"-">> \o IntToString(-n) ELSE IntToString(n)

\* "=" was pressed and its handler has finished.
Evaluated == presses = 1 /\ handlers = << >>

C19_Precedence ==
  Evaluated =>
    /\ \A a \in 0..MaxOperand, b \in 0..MaxOperand, c \in 0..MaxOperand :
         /\ expression = IntToString(a) \o <<"+">> \o IntToString(b) \o <<"*">> \o IntToString(c)
              => result = SignedToString(a + (b * c))
         /\ expression = IntToString(a) \o <<"*">> \o IntToString(b) \o <<"+">> \o IntToString(c)
              => result = SignedToString((a * b) + c)
         /\ expression = IntToString(a) \o <<"-">> \o IntToString(b) \o <<"-">> \o IntToString(c)
              => result = SignedToString((a - b) - c)
    /\ expression = <<"2", "+", "3", "*", "4">> => result = <<"1", "4">>
    /\ expression = <<"2", "*", "3", "+", "4">> => result = <<"1", "0">>

\* "2+3*4" was evaluated: the result is "14" and the ledger holds it.
C19_Witness ==
  /\ Evaluated
  /\ expression = <<"2", "+", "3", "*", "4">>
  /\ result = <<"1", "4">>
  /\ justCalculated
  /\ Len(history) = 1
  /\ history[1].result = result

(***************************************************************************)
(* C20.  For every two-operand buffer "a op b" of digit strings, the       *)
(* second operand with or without leading zeros, the evaluation gives the  *)
(* value of a op b with both strings read as decimal numbers (where that   *)
(* value exists: the divisor is not zero), rounded and formatted.          *)
(***************************************************************************)
DecimalValue(digits) == Frac(DigitsValue(digits, 10), 1)

C20_TwoOperandDecimal ==
  Evaluated =>
    \A a \in 0..MaxOperand, op \in OperatorChars, b \in SecondOperands :
      (/\ expression = IntToString(a) \o <<op>> \o b
       /\ NumApply(op, DecimalValue(IntToString(a)), DecimalValue(b)).finite)
        => result = NumberToString(Round9(
                      NumApply(op, DecimalValue(IntToString(a)), DecimalValue(b))))

(***************************************************************************)
(* C21.  For every dividend a, "0" included, the evaluation of "a/0" gives *)
(* "Error": the handler of "=" shows "Error", keeps the buffer, records no *)
(* history entry and writes nothing to storage.                            *)
(***************************************************************************)
C21_DivisionByZero ==
  \A a \in Dividends :
    /\ evaluateExpression(a \o <<"/", "0">>) = ErrorStr
    /\ (Evaluated /\ seq.before.expression = a \o <<"/", "0">>)
         => /\ result = ErrorStr
            /\ expression = a \o <<"/", "0">>
            /\ history = << >>
            /\ storage[HISTORY_KEY] = NullItem

\* "0/0" was evaluated and shows "Error" beside an empty ledger.
C21_Witness ==
  /\ Evaluated
  /\ expression = <<"0", "/", "0">>
  /\ result = ErrorStr
  /\ justCalculated
  /\ history = << >>

(***************************************************************************)
(* C22.  The evaluation never gives a non-finite value, whatever the       *)
(* number of digits of the operands: the result shown after "=" and the    *)
(* results of the history entries, in memory and in storage, are never     *)
(* "Infinity", "-Infinity" or "NaN".                                       *)
(***************************************************************************)
NonFiniteStrings ==
  {InfinityStr, <<"-">> \o InfinityStr, <<"N", "a", "N">>}

C22_NeverNonFinite ==
  /\ result \notin NonFiniteStrings
  /\ \A k \in 1..Len(history) : history[k].result \notin NonFiniteStrings
  /\ \A k \in 1..Len(StoredHistory) : StoredHistory[k].result \notin NonFiniteStrings

(***************************************************************************)
(* C28.  "=" on a buffer that ends in an operator ("5+"), or in an         *)
(* operator followed by a lone "." ("5+."), shows "Error", leaves the      *)
(* buffer unchanged, adds no history entry, writes nothing to storage and  *)
(* sets the just-calculated flag.                                          *)
(***************************************************************************)
EndsInOperatorDot(s) ==
  Len(s) >= 2 /\ s[Len(s)] = "." /\ s[Len(s) - 1] \in OperatorChars

C28_TrailingOperatorError ==
  [][\A i \in 1..Len(handlers) :
       (/\ Resumed(i)
        /\ handlers[i].key = "="
        /\ \/ EndsInOperator(handlers[i].closure.expression)
           \/ EndsInOperatorDot(handlers[i].closure.expression))
         => /\ result' = ErrorStr
            /\ expression' = expression
            /\ history' = history
            /\ storage' = storage
            /\ justCalculated'
            /\ Returned(i)]_vars

\* "=" found the buffer "5-." and left it beside "Error", the flag set.
C28_Witness ==
  /\ seq.key = "="
  /\ seq.before.expression = <<"5", "-", ".">>
  /\ handlers = << >>
  /\ expression = <<"5", "-", ".">>
  /\ result = ErrorStr
  /\ justCalculated
  /\ history = loadHistory(storage[HISTORY_KEY])

(***************************************************************************)
(* C30.  With the keypresses handled one at a time, whenever the           *)
(* just-calculated flag is set the displayed result is not empty and is    *)
(* the outcome of evaluating the current buffer; the flag is not set when  *)
(* the secret code triggers, and right after the trigger the buffer is     *)
(* "0", the result empty and the flag not set.                             *)
(***************************************************************************)
SecretTriggered == nav = "Calculator" /\ nav' = "Notes"

C30_FlagMeansResult ==
  [][/\ justCalculated' => (result' # Empty /\ result' = evaluateExpression(expression'))
     /\ SecretTriggered
          => /\ ~justCalculated
             /\ expression' = Str0
             /\ result' = Empty
             /\ ~justCalculated']_vars

\* An evaluation set the flag, the secret code was typed afresh and "="
\* opened the vault: the buffer is "0", the result empty, the flag not set.
C30_Witness ==
  /\ nav = "Notes"
  /\ seq.key = "="
  /\ seq.before = [expression |-> SECRET_CODE, justCalculated |-> FALSE]
  /\ \E k \in 1..Len(history) : history[k].expression = <<"6">>
  /\ handlers = << >>
  /\ expression = Str0
  /\ result = Empty
  /\ ~justCalculated

(***************************************************************************)
(* Steps of a call, as seen from a pair of states.                         *)
(***************************************************************************)
\* Call i returned (or raised) in this step; returned' tells with what.
CallCompleted(i) ==
  /\ returned'.n = returned.n + 1
  /\ calls' = RemoveAt(calls, i) \/ calls' = Append(RemoveAt(calls, i), FocusLoad)

\* The notes collection the storage holds.
StoredNotes == loadNotes(storage[NOTES_KEY])

\* The call that completed last met no storage failure.
NoStorageFailure == returned.n > 0 /\ ~returned.readFailed /\ ~returned.writeFailed

(***************************************************************************)
(* C25.  With no storage failure and the calls made one at a time,         *)
(* addNote(content) returns a note with that content, and the stored notes *)
(* are then exactly that note followed by the notes stored before, in      *)
(* their order.                                                            *)
(***************************************************************************)
C25_AddNotePrepends ==
  [][\A i \in 1..Len(calls) :
       (CallCompleted(i) /\ calls[i].op = "addNote" /\ NoStorageFailure')
         => /\ ~returned'.raised
            /\ returned'.ret.content = calls[i].content
            /\ StoredNotes' = <<returned'.ret>> \o StoredNotes]_vars

\* addNote("c") returned its note, stored in front of the two older notes.
C25_Witness ==
  /\ calls = << >>
  /\ returned.op = "addNote"
  /\ NoStorageFailure
  /\ returned.ret.content = <<"c">>
  /\ StoredNotes = <<returned.ret>> \o OlderNotes

(***************************************************************************)
(* C26.  updateNote(id, content): if no stored note has the id it returns  *)
(* null and issues no write; otherwise it returns the updated note, and    *)
(* the stored notes have the same length and order, the first note of the  *)
(* id with the new content and the same id, every other note unchanged.    *)
(* C26_UpdateNote states it for every call, C26_UpdateNoteNoFailure for    *)
(* the calls that meet no storage failure.                                 *)
(***************************************************************************)
UpdateNoteOutcome(id, content) ==
  LET noteIndex == findIndex(StoredNotes, id)
  IN  IF noteIndex = -1
        THEN /\ returned'.ret = NullItem
             /\ ~returned'.wrote
             /\ storage' = storage
        ELSE /\ returned'.ret # NullItem
             /\ returned'.ret = StoredNotes'[noteIndex]
             /\ Len(StoredNotes') = Len(StoredNotes)
             /\ StoredNotes'[noteIndex].content = content
             /\ StoredNotes'[noteIndex].id = id
             /\ \A k \in 1..Len(StoredNotes) :
                  k # noteIndex => StoredNotes'[k] = StoredNotes[k]

DeleteNoteOutcome(id) ==
  IF findIndex(StoredNotes, id) = -1
    THEN /\ returned'.ret = FALSE
         /\ ~returned'.wrote
         /\ storage' = storage
    ELSE /\ returned'.ret = TRUE
         /\ StoredNotes' = SelectSeq(StoredNotes, LAMBDA note : note.id # id)

C23_LoadsNeverFail ==
  [][\A i \in 1..Len(calls) :
       (CallCompleted(i) /\ calls[i].op \in {"loadNotes", "loadHistory"})
         => /\ ~returned'.raised
            /\ ~returned'.wrote
            /\ storage' = storage
            /\ returned'.ret =
                 IF \/ returned'.readFailed
                    \/ storage[KeyOf(calls[i].op)] = NullItem
                    \/ storage[KeyOf(calls[i].op)] = CorruptItem
                   THEN << >>
                   ELSE JsonParse(storage[KeyOf(calls[i].op)])]_vars

\* The read of loadNotes was rejected while the storage held the older
\* notes: it gave the empty collection and the storage still holds them.
C23_Witness ==
  /\ returned.op = "loadNotes"
  /\ returned.caller = "api"
  /\ returned.readFailed
  /\ returned.ret = << >>
  /\ storage[NOTES_KEY] = JsonStringify(OlderNotes)

(***************************************************************************)
(* C24.  Whatever reads and writes are rejected, every call of saveNotes,  *)
(* saveHistory, addNote, updateNote, deleteNote, getNoteById and           *)
(* clearAllData completes without raising, a rejected write leaves the     *)
(* storage unchanged, and the editor's "Failed to save note" alert is      *)
(* never shown.                                                            *)
(***************************************************************************)
C24_FailuresNeverSurface ==
  [][/\ \A i \in 1..Len(calls) :
          CallCompleted(i)
            => /\ ~returned'.raised
               /\ returned'.writeFailed => storage' = storage
     /\ alert' # "Failed to save note"]_vars

\* The write of the addNote of handleSave was rejected: the editor went
\* back to the notes screen without an alert, the storage as it was.
C24_Witness ==
  /\ returned.op = "addNote"
  /\ returned.caller = "handleSave"
  /\ returned.writeFailed
  /\ ~returned.raised
  /\ nav = "Notes"
  /\ edit = NoEdit
  /\ alert = "none"
  /\ storage[NOTES_KEY] = JsonStringify(OlderNotes)

(***************************************************************************)
(* C29.  The two stored collections are independent: no step of a          *)
(* calculator keypress ("7", "=", "C") changes the stored notes, and no    *)
(* step of addNote, updateNote or deleteNote changes the stored history.   *)
(***************************************************************************)
\* The step is one of call i.
StepOfCall(i) ==
  CallCompleted(i) \/ (returned' = returned /\ Len(calls') = Len(calls) /\ calls'[i] # calls[i])

C29_CollectionsIndependent ==
  [][/\ handlers' # handlers => storage'[NOTES_KEY] = storage[NOTES_KEY]
     /\ \A i \in 1..Len(calls) :
          (StepOfCall(i) /\ calls[i].op \in {"addNote", "updateNote", "deleteNote"})
            => storage'[HISTORY_KEY] = storage[HISTORY_KEY]]_vars

\* A note was added in front of the older notes and "=" recorded "7" in
\* front of the earlier history: each collection holds its own.
C29_Witness ==
  /\ calls = << >>
  /\ handlers = << >>
  /\ Len(StoredNotes) = 3
  /\ StoredNotes[1].timestamp = now
  /\ Len(StoredHistory) = 2
  /\ StoredHistory[1].timestamp = now
  /\ StoredHistory[2] = EarlierHistory[1]

(***************************************************************************)
(* C31.  Save on a content that is empty or only whitespace is rejected:   *)
(* the "Empty Note" alert is shown, no call of lib/storage.ts is made and  *)
(* the storage is not written, the editor stays on top, and isSaving is    *)
(* not set.                                                                *)
(***************************************************************************)
\* Save is pressed in this step while the editor shows its input: of the
\* taps, only Save leaves the content and the calls as they are.
SavePressed ==
  /\ nav = "EditNote"
  /\ ~edit.isLoading
  /\ ~edit.isSaving
  /\ presses' = presses + 1
  /\ calls' = calls
  /\ edit'.content = edit.content

C31_EmptySaveRejected ==
  [][(SavePressed /\ trim(edit.content) = << >>)
       => /\ alert' = "Empty Note"
          /\ calls' = calls
          /\ storage' = storage
          /\ nav' = "EditNote"
          /\ edit' = edit
          /\ ~edit'.isSaving
          /\ edit'.save = "idle"]_vars

\* A space was typed into a new note and Save pressed: the alert is shown,
\* the editor is still on top and not saving, the storage as it was.
C31_Witness ==
  /\ nav = "EditNote"
  /\ alert = "Empty Note"
  /\ edit.noteId = NullItem
  /\ edit.content = <<" ">>
  /\ ~edit.isSaving
  /\ presses = NotesPresses
  /\ calls = << >>
  /\ returned.n = 1
  /\ storage[NOTES_KEY] = JsonStringify(OlderNotes)

(***************************************************************************)
(* C32.  Whenever Save ends by going back without the error alert, the     *)
(* stored notes hold the trimmed content: for a new note, a note of that   *)
(* content at the head of the collection; for an edited note, the note of  *)
(* the edited id with that content; whatever the storage holds at the time *)
(* of the save, a note that is no longer stored and a rejected write       *)
(* included.                                                               *)
(***************************************************************************)
\* The addNote or updateNote of handleSave, call i, returned in this step
\* and the editor went back.
SaveWentBack(i) ==
  /\ CallCompleted(i)
  /\ calls[i].caller = "handleSave"
  /\ nav = "EditNote"
  /\ nav' = "Notes"
  /\ alert' # "Failed to save note"

C32_SavedWhenBack ==
  [][\A i \in 1..Len(calls) :
       SaveWentBack(i)
         => IF calls[i].op = "addNote"
              THEN /\ StoredNotes' # << >>
                   /\ StoredNotes'[1].content = calls[i].content
              ELSE \E k \in 1..Len(StoredNotes') :
                     /\ StoredNotes'[k].id = calls[i].id
                     /\ StoredNotes'[k].content = calls[i].content]_vars

(***************************************************************************)
(* C33.  addNote never removes a stored note: whatever the outcome of its  *)
(* read (the stored collection, an absent key, a rejected read, a text     *)
(* that does not parse) and of its write, every note stored before the     *)
(* call is still stored when the call has completed.  The calls are made   *)
(* one at a time.                                                          *)
(***************************************************************************)
C33_AddNoteKeepsNotes ==
  [][\A i \in 1..Len(calls) :
       (CallCompleted(i) /\ calls[i].op = "addNote")
         => \A k \in 1..Len(StoredNotes) :
              \E j \in 1..Len(StoredNotes') : StoredNotes'[j] = StoredNotes[k]]_vars

(***************************************************************************)
(* C34.  Note operations do not lose each other's updates, also when they  *)
(* overlap in time: the write of an addNote, updateNote or deleteNote that *)
(* met no storage failure changes, in the stored collection, the note it   *)
(* works on and no other; every other stored note stays stored, and no     *)
(* other note comes back.                                                  *)
(***************************************************************************)
\* The id of the note call c works on: for addNote, the id of its new note.
NoteOf(c) == IF c.op = "addNote" THEN c.ret.id ELSE c.id

C34_NoLostUpdates ==
  [][\A i \in 1..Len(calls) :
       (/\ CallCompleted(i)
        /\ calls[i].pc = "setItem"
        /\ calls[i].op \in {"addNote", "updateNote", "deleteNote"}
        /\ ~calls[i].readFailed)
         => /\ \A k \in 1..Len(StoredNotes) :
                 \/ StoredNotes[k].id = NoteOf(calls[i])
                 \/ \E j \in 1..Len(StoredNotes') : StoredNotes'[j] = StoredNotes[k]
            /\ \A j \in 1..Len(StoredNotes') :
                 \/ StoredNotes'[j].id = NoteOf(calls[i])
                 \/ \E k \in 1..Len(StoredNotes) : StoredNotes[k] = StoredNotes'[j]]_vars

(***************************************************************************)
(* C35.  In every reachable state the ids of the entries of the history    *)
(* ledger are pairwise distinct, for any sequence of "=" presses, also of  *)
(* presses handled within the same millisecond of the clock.               *)
(***************************************************************************)
C35_DistinctIds ==
  \A j \in 1..Len(history) : \A k \in 1..Len(history) :
    j # k => history[j].id # history[k].id

====
